---- MODULE Spec2Model ----
(***************************************************************************)
(* The peer authorization manager of libsplinter                           *)
(* (libsplinter/src/network/auth/mod.rs): the state table, the callback    *)
(* list and the disconnect receiver kept under one mutex, the transition   *)
(* engine next_state, the queries is_authorized and register_callback, and *)
(* the Network the manager talks to.  Every call of the manager holds the  *)
(* mutex from its first line to its return, so a call is one step.         *)
(***************************************************************************)
EXTENDS Naturals, Sequences, FiniteSets, TLC

VARIABLES
    states,               \* ManagedAuthorizations.states: HashMap<String, AuthorizationState>
    callbacks,            \* ManagedAuthorizations.callbacks: Vec<Box<dyn AuthorizationCallback>>
    disconnect_receiver,  \* the identifiers sent by the disconnect listener, not yet received
    peers,                \* the Network's peers: identifier -> endpoint
    notifications,        \* what each registered callback has been called with, in order
    last,                 \* the call of the manager that has just returned: its arguments,
                          \* what it drained, the state it read, what it returned
    lock,                 \* the thread that holds the mutex of `shared`, or Free
    threads,              \* each thread's next_state call: where it is and its locals
    published,            \* the statuses handed to notify_callbacks, in the order of the calls
    calls,                \* the next_state calls started by the threads
    store,                \* the circuits of the CircuitStore, in its order
    request,              \* the query of the GET /admin/circuits request just answered
    response              \* the response to it

\* What a call taken as one step leaves alone: the mutex and the threads.
threadVars == <<lock, threads, published, calls>>

\* What the authorization manager leaves alone: the REST API of the circuits.
restVars == <<store, request, response>>

vars ==
    <<states, callbacks, disconnect_receiver, peers, notifications, last, threadVars,
      restVars>>

----------------------------------------------------------------------------
(* Bounds of the model.                                                     *)

MaxQueue == 1          \* disconnect events that may wait in the channel
MaxCallbacks == 1      \* callbacks that get registered
MaxNotifications == 2  \* notifications a callback records before next_state stops being called
MaxCalls == 2          \* next_state calls the threads start
MaxObservers == 2      \* callbacks that get registered while threads run

----------------------------------------------------------------------------
(* Identifiers, endpoints, states, actions.                                 *)

\* Peer identifiers: a temporary one, given when a connection is accepted, and
\* one a remote peer claims.  Both are Strings and either may be used as the other.
Identities == {"temp-1", "abcd"}

\* Endpoints are strings; they are kept as sequences of characters, so that
\* the substring test of next_state is computed and not assumed.
InprocEndpoint == <<"i", "n", "p", "r", "o", "c", ":", "/", "/", "c", "t", "l">>
TcpEndpoint == <<"t", "c", "p", ":", "/", "/", "h", ":", "1">>
ProxiedEndpoint == <<"t", "c", "p", ":", "/", "/", "i", "n", "p", "r", "o", "c", ":", "1">>
Endpoints == {InprocEndpoint, TcpEndpoint, ProxiedEndpoint}

\* str::starts_with
StartsWith(haystack, needle) ==
    /\ Len(needle) <= Len(haystack)
    /\ SubSeq(haystack, 1, Len(needle)) = needle

\* str::contains
Contains(haystack, needle) ==
    \E i \in 1..(Len(haystack) + 1) :
        /\ i + Len(needle) - 1 <= Len(haystack)
        /\ SubSeq(haystack, i, i + Len(needle) - 1) = needle

AuthorizationState == {"Unknown", "Connecting", "Authorized", "Unauthorized", "Internal"}

AuthorizationAction ==
    [kind : {"Connecting", "Unauthorizing"}, id : {"-"}]
        \cup [kind : {"TrustIdentifying"}, id : Identities]

PeerAuthorizationState == {"Authorized", "Unauthorized"}

\* What a callback returns from on_authorization_change.
CallbackKinds == {"ok", "err"}

\* The callbacks that get registered: recorders, as the tests register them.
Recorders == {"ok"}

----------------------------------------------------------------------------
(* HashMap operations.                                                      *)

MapRemove(map, key) == [k \in DOMAIN map \ {key} |-> map[k]]

MapInsert(map, key, value) ==
    [k \in DOMAIN map \cup {key} |-> IF k = key THEN value ELSE map[k]]

EmptyMap == [k \in {} |-> "Unknown"]

Range(seq) == {seq[i] : i \in 1..Len(seq)}

\* A peer without an entry read as Connecting.
GetOrConnecting(map, peer_id) ==
    IF peer_id \in DOMAIN map THEN map[peer_id] ELSE "Connecting"

\* states.get(peer_id).unwrap_or(&AuthorizationState::Unknown)
GetOrUnknown(map, peer_id) ==
    IF peer_id \in DOMAIN map THEN map[peer_id] ELSE "Unknown"

\* The drain forgotten: the removals are received and no entry is removed.
DrainNothing(map, removals) == map

\* The drain asks the Network: the entry of an identifier that names a peer
\* of the Network is kept.
DrainLostOnly(map, removals) ==
    [k \in DOMAIN map \ (Range(removals) \ DOMAIN peers) |-> map[k]]

\* Any disconnect received empties the table.
DrainClears(map, removals) == IF removals = <<>> THEN map ELSE EmptyMap

\* for peer_id in removals.into_iter() { shared.states.remove(&peer_id); }
RECURSIVE DrainRemovals(_, _)
DrainRemovals(map, removals) ==
    IF removals = <<>> THEN map
    ELSE DrainRemovals(MapRemove(map, Head(removals)), Tail(removals))

----------------------------------------------------------------------------
(* Results of next_state.                                                   *)

\* The action slot of a result or of a call record that holds no action.
NoAction == [kind |-> "-", id |-> "-"]

Ok(state) ==
    [ok |-> TRUE, state |-> state, err |-> "-", from |-> "-", action |-> NoAction]
Err(err, from) ==
    [ok |-> FALSE, state |-> "-", err |-> err, from |-> from, action |-> NoAction]

\* AuthorizationActionError::InvalidMessageOrder(cur_state.clone(), action)
InvalidMessageOrder(from, action) ==
    [ok |-> FALSE, state |-> "-", err |-> "InvalidMessageOrder", from |-> from,
     action |-> action]

----------------------------------------------------------------------------
(* The Network: the peers it holds and the three operations the manager     *)
(* calls.  An operation yields the set of its possible outcomes: whether it *)
(* returned Ok, the peers afterwards, and the identifiers its disconnect    *)
(* listener sent into the channel.                                          *)

Inproc == <<"i", "n", "p", "r", "o", "c">>

\* get_peer_endpoint(id) -> Option<String>: <<>> is None, <<e>> is Some(e)
GetPeerEndpoint(net, id) == IF id \in DOMAIN net THEN <<net[id]>> ELSE <<>>

\* remove_connection(id) -> Result<(), Error>.  Ok: the peer is gone, and the
\* disconnect listener was called for it if it was there.  Err: the peers are
\* as before, or the peer is gone and no listener was called.
RemoveConnection(net, id) ==
    {[ok |-> TRUE, peers |-> MapRemove(net, id),
      sent |-> IF id \in DOMAIN net THEN <<id>> ELSE <<>>]}
    \cup {[ok |-> FALSE, peers |-> net, sent |-> <<>>]}
    \cup {[ok |-> FALSE, peers |-> MapRemove(net, id), sent |-> <<>>]}

\* update_peer_id(old_id, new_id) -> Result<(), Error>: the atomic rename.  Ok
\* (only when old_id is a peer): the connection is now known as new_id.  Err:
\* the peers are as before.
UpdatePeerId(net, old_id, new_id) ==
    {[ok |-> TRUE, peers |-> MapInsert(MapRemove(net, old_id), new_id, net[old_id]),
      sent |-> <<>>] : x \in IF old_id \in DOMAIN net THEN {old_id} ELSE {}}
    \cup {[ok |-> FALSE, peers |-> net, sent |-> <<>>]}

----------------------------------------------------------------------------
(* AuthorizationManager.                                                    *)

\* notify_callbacks: every callback, in the order of the list, is called with
\* (peer_id, state); an Err it returns is logged and nothing else.
NotifyCallbacks(cbs, notifs, peer_id, state) ==
    [i \in 1..Len(cbs) |-> Append(notifs[i], <<peer_id, state>>)]

\* One arm of next_state's match ends in one of these: the table, the peers,
\* what was sent into the channel meanwhile, the callbacks' records, the result.
Outcome(st, net, sent, notifs, result) ==
    [states |-> st, peers |-> net, sent |-> sent, notifications |-> notifs,
     result |-> result]

\* The start of a handshake published to the callbacks.
ConnectingNotifies(st, peer_id) ==
    LET endpoint == GetPeerEndpoint(peers, peer_id) IN
    IF endpoint # <<>> /\ Contains(endpoint[1], Inproc)
    THEN {Outcome(MapInsert(st, peer_id, "Internal"), peers, <<>>,
                  NotifyCallbacks(callbacks, notifications, peer_id, "Authorized"),
                  Ok("Internal"))}
    ELSE {Outcome(MapInsert(st, peer_id, "Connecting"), peers, <<>>,
                  NotifyCallbacks(callbacks, notifications, peer_id, "Authorized"),
                  Ok("Connecting"))}

\* An inproc peer stored as Internal and no callback called.
InprocAuthorizedSilently(st, peer_id) ==
    LET endpoint == GetPeerEndpoint(peers, peer_id) IN
    IF endpoint # <<>> /\ Contains(endpoint[1], Inproc)
    THEN {Outcome(MapInsert(st, peer_id, "Internal"), peers, <<>>, notifications,
                  Ok("Internal"))}
    ELSE {Outcome(MapInsert(st, peer_id, "Connecting"), peers, <<>>, notifications,
                  Ok("Connecting"))}

\* (Unknown, Connecting)
UnknownConnecting(st, peer_id) ==
    LET endpoint == GetPeerEndpoint(peers, peer_id) IN
    IF endpoint # <<>> /\ Contains(endpoint[1], Inproc)
    THEN {Outcome(MapInsert(st, peer_id, "Internal"), peers, <<>>,
                  NotifyCallbacks(callbacks, notifications, peer_id, "Authorized"),
                  Ok("Internal"))}
    ELSE {Outcome(MapInsert(st, peer_id, "Connecting"), peers, <<>>, notifications,
                  Ok("Connecting"))}

\* Unauthorized published for a peer that has no entry.
UnknownUnauthorizingNotifies(st, peer_id) ==
    {IF r.ok
     THEN Outcome(st, r.peers, r.sent,
                  NotifyCallbacks(callbacks, notifications, peer_id, "Unauthorized"),
                  Ok("Unauthorized"))
     ELSE Outcome(st, r.peers, r.sent, notifications, Err("ConnectionLost", "-"))
     : r \in RemoveConnection(peers, peer_id)}

\* Unauthorized stored for a peer that had no entry.
UnknownUnauthorizingInserts(st, peer_id) ==
    {IF r.ok
     THEN Outcome(MapInsert(st, peer_id, "Unauthorized"), r.peers, r.sent, notifications,
                  Ok("Unauthorized"))
     ELSE Outcome(st, r.peers, r.sent, notifications, Err("ConnectionLost", "-"))
     : r \in RemoveConnection(peers, peer_id)}

\* (Unknown, Unauthorizing)
UnknownUnauthorizing(st, peer_id) ==
    {IF r.ok
     THEN Outcome(st, r.peers, r.sent, notifications, Ok("Unauthorized"))
     ELSE Outcome(st, r.peers, r.sent, notifications, Err("ConnectionLost", "-"))
     : r \in RemoveConnection(peers, peer_id)}

\* The Err of update_peer_id ignored.
TrustIdentifyingIgnoresFailure(st, peer_id, new_peer_id) ==
    LET removed == MapRemove(st, peer_id) IN
    {Outcome(MapInsert(removed, new_peer_id, "Authorized"), r.peers, r.sent,
             NotifyCallbacks(callbacks, notifications, new_peer_id, "Authorized"),
             Ok("Authorized"))
     : r \in UpdatePeerId(peers, peer_id, new_peer_id)}

\* The new identifier inserted, the entry under the old one left behind.
TrustIdentifyingKeepsOldEntry(st, peer_id, new_peer_id) ==
    {IF r.ok
     THEN Outcome(MapInsert(st, new_peer_id, "Authorized"), r.peers, r.sent,
                  NotifyCallbacks(callbacks, notifications, new_peer_id, "Authorized"),
                  Ok("Authorized"))
     ELSE Outcome(st, r.peers, r.sent, notifications, Err("ConnectionLost", "-"))
     : r \in UpdatePeerId(peers, peer_id, new_peer_id)}

\* The Authorized entry stored under the temporary identifier.
TrustIdentifyingKeepsKey(st, peer_id, new_peer_id) ==
    LET removed == MapRemove(st, peer_id) IN
    {IF r.ok
     THEN Outcome(MapInsert(removed, peer_id, "Authorized"), r.peers, r.sent,
                  NotifyCallbacks(callbacks, notifications, new_peer_id, "Authorized"),
                  Ok("Authorized"))
     ELSE Outcome(removed, r.peers, r.sent, notifications, Err("ConnectionLost", "-"))
     : r \in UpdatePeerId(peers, peer_id, new_peer_id)}

\* The callbacks called and the new identifier not inserted.
TrustIdentifyingNotifiesOnly(st, peer_id, new_peer_id) ==
    LET removed == MapRemove(st, peer_id) IN
    {IF r.ok
     THEN Outcome(removed, r.peers, r.sent,
                  NotifyCallbacks(callbacks, notifications, new_peer_id, "Authorized"),
                  Ok("Authorized"))
     ELSE Outcome(removed, r.peers, r.sent, notifications, Err("ConnectionLost", "-"))
     : r \in UpdatePeerId(peers, peer_id, new_peer_id)}

\* An identifier that has an entry already is refused to another peer.
TrustIdentifyingRejectsKnown(st, peer_id, new_peer_id) ==
    LET removed == MapRemove(st, peer_id) IN
    IF new_peer_id \in DOMAIN removed
    THEN {Outcome(st, peers, <<>>, notifications, Err("AlreadyConnecting", "-"))}
    ELSE {IF r.ok
          THEN Outcome(MapInsert(removed, new_peer_id, "Authorized"), r.peers, r.sent,
                       NotifyCallbacks(callbacks, notifications, new_peer_id, "Authorized"),
                       Ok("Authorized"))
          ELSE Outcome(removed, r.peers, r.sent, notifications, Err("ConnectionLost", "-"))
          : r \in UpdatePeerId(peers, peer_id, new_peer_id)}

\* (Connecting, TrustIdentifying(new_peer_id))
ConnectingTrustIdentifying(st, peer_id, new_peer_id) ==
    LET removed == MapRemove(st, peer_id) IN
    {IF r.ok
     THEN Outcome(MapInsert(removed, new_peer_id, "Authorized"), r.peers, r.sent,
                  NotifyCallbacks(callbacks, notifications, new_peer_id, "Authorized"),
                  Ok("Authorized"))
     ELSE Outcome(removed, r.peers, r.sent, notifications, Err("ConnectionLost", "-"))
     : r \in UpdatePeerId(peers, peer_id, new_peer_id)}

\* The Network called first, the entry removed only when it returned Ok.
UnauthorizingAfterNetwork(st, peer_id) ==
    {IF r.ok
     THEN Outcome(MapRemove(st, peer_id), r.peers, r.sent,
                  NotifyCallbacks(callbacks, notifications, peer_id, "Unauthorized"),
                  Ok("Unauthorized"))
     ELSE Outcome(st, r.peers, r.sent, notifications, Err("ConnectionLost", "-"))
     : r \in RemoveConnection(peers, peer_id)}

\* The callbacks called before the Network is: they hear of a removal that
\* failed.
UnauthorizingNotifiesFirst(st, peer_id) ==
    LET removed == MapRemove(st, peer_id) IN
    {Outcome(removed, r.peers, r.sent,
             NotifyCallbacks(callbacks, notifications, peer_id, "Unauthorized"),
             IF r.ok THEN Ok("Unauthorized") ELSE Err("ConnectionLost", "-"))
     : r \in RemoveConnection(peers, peer_id)}

\* (Connecting, Unauthorizing)
ConnectingUnauthorizing(st, peer_id) ==
    LET removed == MapRemove(st, peer_id) IN
    {IF r.ok
     THEN Outcome(removed, r.peers, r.sent,
                  NotifyCallbacks(callbacks, notifications, peer_id, "Unauthorized"),
                  Ok("Unauthorized"))
     ELSE Outcome(removed, r.peers, r.sent, notifications, Err("ConnectionLost", "-"))
     : r \in RemoveConnection(peers, peer_id)}

\* Unauthorized stored as the peer's state, not returned only.
UnauthorizingLeavesTombstone(st, peer_id) ==
    {IF r.ok
     THEN Outcome(MapInsert(st, peer_id, "Unauthorized"), r.peers, r.sent,
                  NotifyCallbacks(callbacks, notifications, peer_id, "Unauthorized"),
                  Ok("Unauthorized"))
     ELSE Outcome(MapRemove(st, peer_id), r.peers, r.sent, notifications,
                  Err("ConnectionLost", "-"))
     : r \in RemoveConnection(peers, peer_id)}

\* The entry of an unauthorized peer left in the table.
UnauthorizingKeepsEntry(st, peer_id) ==
    {IF r.ok
     THEN Outcome(st, r.peers, r.sent,
                  NotifyCallbacks(callbacks, notifications, peer_id, "Unauthorized"),
                  Ok("Unauthorized"))
     ELSE Outcome(st, r.peers, r.sent, notifications, Err("ConnectionLost", "-"))
     : r \in RemoveConnection(peers, peer_id)}

\* (Authorized, Unauthorizing)
AuthorizedUnauthorizing(st, peer_id) ==
    LET removed == MapRemove(st, peer_id) IN
    {IF r.ok
     THEN Outcome(removed, r.peers, r.sent,
                  NotifyCallbacks(callbacks, notifications, peer_id, "Unauthorized"),
                  Ok("Unauthorized"))
     ELSE Outcome(removed, r.peers, r.sent, notifications, Err("ConnectionLost", "-"))
     : r \in RemoveConnection(peers, peer_id)}

\* An arm that only returns an error.
Rejected(st, error) == {Outcome(st, peers, <<>>, notifications, error)}

\* TrustIdentifying accepted from a peer that never sent Connecting.
DispatchTrustsUnknown(st, cur_state, peer_id, action) ==
    CASE cur_state = "Unknown" ->
            (CASE action.kind = "Connecting" -> UnknownConnecting(st, peer_id)
               [] action.kind = "Unauthorizing" -> UnknownUnauthorizing(st, peer_id)
               [] OTHER -> ConnectingTrustIdentifying(st, peer_id, action.id))
      [] cur_state = "Connecting" ->
            (CASE action.kind = "Connecting" -> Rejected(st, Err("AlreadyConnecting", "-"))
               [] action.kind = "TrustIdentifying" ->
                      ConnectingTrustIdentifying(st, peer_id, action.id)
               [] OTHER -> ConnectingUnauthorizing(st, peer_id))
      [] cur_state = "Authorized" ->
            (CASE action.kind = "Unauthorizing" -> AuthorizedUnauthorizing(st, peer_id)
               [] OTHER -> Rejected(st, InvalidMessageOrder("Authorized", action)))
      [] OTHER -> Rejected(st, InvalidMessageOrder(cur_state, action))

\* An Internal peer is unauthorized the way an Authorized one is.
DispatchUnauthorizesInternal(st, cur_state, peer_id, action) ==
    CASE cur_state = "Unknown" ->
            (CASE action.kind = "Connecting" -> UnknownConnecting(st, peer_id)
               [] action.kind = "Unauthorizing" -> UnknownUnauthorizing(st, peer_id)
               [] OTHER -> Rejected(st, InvalidMessageOrder("Unknown", action)))
      [] cur_state = "Connecting" ->
            (CASE action.kind = "Connecting" -> Rejected(st, Err("AlreadyConnecting", "-"))
               [] action.kind = "TrustIdentifying" ->
                      ConnectingTrustIdentifying(st, peer_id, action.id)
               [] OTHER -> ConnectingUnauthorizing(st, peer_id))
      [] cur_state \in {"Authorized", "Internal"} ->
            (CASE action.kind = "Unauthorizing" -> AuthorizedUnauthorizing(st, peer_id)
               [] OTHER -> Rejected(st, InvalidMessageOrder(cur_state, action)))
      [] OTHER -> Rejected(st, InvalidMessageOrder(cur_state, action))

\* Connecting arriving for a peer that is already Connecting starts over.
DispatchReconnects(st, cur_state, peer_id, action) ==
    CASE cur_state = "Unknown" ->
            (CASE action.kind = "Connecting" -> UnknownConnecting(st, peer_id)
               [] action.kind = "Unauthorizing" -> UnknownUnauthorizing(st, peer_id)
               [] OTHER -> Rejected(st, InvalidMessageOrder("Unknown", action)))
      [] cur_state = "Connecting" ->
            (CASE action.kind = "Connecting" -> UnknownConnecting(st, peer_id)
               [] action.kind = "TrustIdentifying" ->
                      ConnectingTrustIdentifying(st, peer_id, action.id)
               [] OTHER -> ConnectingUnauthorizing(st, peer_id))
      [] cur_state = "Authorized" ->
            (CASE action.kind = "Unauthorizing" -> AuthorizedUnauthorizing(st, peer_id)
               [] OTHER -> Rejected(st, InvalidMessageOrder("Authorized", action)))
      [] OTHER -> Rejected(st, InvalidMessageOrder(cur_state, action))

\* match *cur_state { ... match action { ... } }
Dispatch(st, cur_state, peer_id, action) ==
    CASE cur_state = "Unknown" ->
            (CASE action.kind = "Connecting" -> UnknownConnecting(st, peer_id)
               [] action.kind = "Unauthorizing" -> UnknownUnauthorizing(st, peer_id)
               [] OTHER -> Rejected(st, InvalidMessageOrder("Unknown", action)))
      [] cur_state = "Connecting" ->
            (CASE action.kind = "Connecting" -> Rejected(st, Err("AlreadyConnecting", "-"))
               [] action.kind = "TrustIdentifying" ->
                      ConnectingTrustIdentifying(st, peer_id, action.id)
               [] OTHER -> ConnectingUnauthorizing(st, peer_id))
      [] cur_state = "Authorized" ->
            (CASE action.kind = "Unauthorizing" -> AuthorizedUnauthorizing(st, peer_id)
               [] OTHER -> Rejected(st, InvalidMessageOrder("Authorized", action)))
      [] OTHER -> Rejected(st, InvalidMessageOrder(cur_state, action))

NoResult == Err("-", "-")

\* No call of the manager has just returned.
NoCall ==
    [op |-> "-", peer |-> "-", action |-> NoAction, removals |-> {}, before |-> "-",
     cur |-> "-", result |-> NoResult, answer |-> FALSE]

\* The drain calls the callbacks with Unauthorized for the entry it removes.
NextStatePublishesRemovals(peer_id, action) ==
    /\ \A i \in 1..Len(callbacks) : Len(notifications[i]) < MaxNotifications
    /\ LET removals == disconnect_receiver
           drained == DrainRemovals(states, removals)
           cur_state == GetOrUnknown(drained, peer_id)
           removed == IF removals # <<>> /\ Head(removals) \in DOMAIN states
                      THEN <<<<Head(removals), "Unauthorized">>>> ELSE <<>>
       IN \E out \in Dispatch(drained, cur_state, peer_id, action) :
            /\ states' = out.states
            /\ peers' = out.peers
            /\ disconnect_receiver' = out.sent
            /\ notifications' =
                  [i \in 1..Len(callbacks) |-> removed \o out.notifications[i]]
            /\ last' = [op |-> "next_state", peer |-> peer_id, action |-> action,
                        removals |-> Range(removals),
                        before |-> GetOrUnknown(states, peer_id), cur |-> cur_state,
                        result |-> out.result, answer |-> FALSE]
    /\ UNCHANGED <<restVars, callbacks, threadVars>>

\* The state is read before the queued disconnects are removed.
NextStateReadsBeforeDrain(peer_id, action) ==
    /\ \A i \in 1..Len(callbacks) : Len(notifications[i]) < MaxNotifications
    /\ LET removals == disconnect_receiver
           cur_state == GetOrUnknown(states, peer_id)
           drained == DrainRemovals(states, removals)
       IN \E out \in Dispatch(drained, cur_state, peer_id, action) :
            /\ states' = out.states
            /\ peers' = out.peers
            /\ disconnect_receiver' = out.sent
            /\ notifications' = out.notifications
            /\ last' = [op |-> "next_state", peer |-> peer_id, action |-> action,
                        removals |-> Range(removals),
                        before |-> GetOrUnknown(states, peer_id), cur |-> cur_state,
                        result |-> out.result, answer |-> FALSE]
    /\ UNCHANGED <<restVars, callbacks, threadVars>>

\* fn next_state(&self, peer_id, action) -> Result<AuthorizationState, AuthorizationActionError>
NextState(peer_id, action) ==
    /\ \A i \in 1..Len(callbacks) : Len(notifications[i]) < MaxNotifications
    /\ LET removals == disconnect_receiver
           drained == DrainRemovals(states, removals)
           cur_state == GetOrUnknown(drained, peer_id)
       IN \E out \in Dispatch(drained, cur_state, peer_id, action) :
            /\ states' = out.states
            /\ peers' = out.peers
            /\ disconnect_receiver' = out.sent
            /\ notifications' = out.notifications
            /\ last' = [op |-> "next_state", peer |-> peer_id, action |-> action,
                        removals |-> Range(removals),
                        before |-> GetOrUnknown(states, peer_id), cur |-> cur_state,
                        result |-> out.result, answer |-> FALSE]
    /\ UNCHANGED <<restVars, callbacks, threadVars>>

\* Internal peers not counted as authorized.
AuthorizedOnly(st, peer_id) ==
    IF peer_id \in DOMAIN st THEN st[peer_id] = "Authorized" ELSE FALSE

\* the answer of is_authorized, read from the drained table
Authorized(st, peer_id) ==
    IF peer_id \in DOMAIN st
    THEN st[peer_id] = "Authorized" \/ st[peer_id] = "Internal"
    ELSE FALSE

\* The answer stored: a peer that is not authorized gets the entry
\* Unauthorized.
IsAuthorizedStoresAnswer(peer_id) ==
    LET removals == disconnect_receiver
        drained == DrainRemovals(states, removals)
    IN /\ states' = IF Authorized(drained, peer_id) THEN drained
                    ELSE MapInsert(drained, peer_id, "Unauthorized")
       /\ disconnect_receiver' = <<>>
       /\ last' = [op |-> "is_authorized", peer |-> peer_id, action |-> NoAction,
                   removals |-> Range(removals),
                   before |-> GetOrUnknown(states, peer_id),
                   cur |-> GetOrUnknown(drained, peer_id),
                   result |-> NoResult, answer |-> Authorized(drained, peer_id)]
       /\ UNCHANGED <<restVars, callbacks, peers, notifications, threadVars>>

\* The removals applied to a copy of the table: the answer is right, the
\* entries stay.
IsAuthorizedDrainsCopy(peer_id) ==
    LET removals == disconnect_receiver
        drained == DrainRemovals(states, removals)
    IN /\ states' = states
       /\ disconnect_receiver' = <<>>
       /\ last' = [op |-> "is_authorized", peer |-> peer_id, action |-> NoAction,
                   removals |-> Range(removals),
                   before |-> GetOrUnknown(states, peer_id),
                   cur |-> GetOrUnknown(drained, peer_id),
                   result |-> NoResult, answer |-> Authorized(drained, peer_id)]
       /\ UNCHANGED <<restVars, callbacks, peers, notifications, threadVars>>

\* fn is_authorized(&self, peer_id) -> bool
IsAuthorized(peer_id) ==
    LET removals == disconnect_receiver
        drained == DrainRemovals(states, removals)
    IN /\ states' = drained
       /\ disconnect_receiver' = <<>>
       /\ last' = [op |-> "is_authorized", peer |-> peer_id, action |-> NoAction,
                   removals |-> Range(removals),
                   before |-> GetOrUnknown(states, peer_id),
                   cur |-> GetOrUnknown(drained, peer_id),
                   result |-> NoResult, answer |-> Authorized(drained, peer_id)]
       /\ UNCHANGED <<restVars, callbacks, peers, notifications, threadVars>>

\* fn register_callback(&self, callback) -> Result<(), AuthorizationCallbackError>
RegisterCallback(callback) ==
    /\ Len(callbacks) < MaxCallbacks
    /\ callbacks' = Append(callbacks, callback)
    /\ notifications' = Append(notifications, <<>>)
    /\ last' = [op |-> "register_callback", peer |-> "-", action |-> NoAction,
                removals |-> {}, before |-> "-", cur |-> "-", result |-> NoResult,
                answer |-> FALSE]
    /\ UNCHANGED <<restVars, states, disconnect_receiver, peers, threadVars>>

----------------------------------------------------------------------------
(* What happens to the Network outside the manager's calls.                 *)

\* network.add_connection: a connection is accepted under an identifier
AddConnection(id, endpoint) ==
    /\ id \notin DOMAIN peers
    /\ peers' = MapInsert(peers, id, endpoint)
    /\ last' = NoCall
    /\ UNCHANGED <<restVars, states, callbacks, disconnect_receiver, notifications, threadVars>>

\* A peer is lost, or removed by another user of the Network: the disconnect
\* listener that AuthorizationManager::new registered sends its identifier.
Disconnect(id) ==
    /\ id \in DOMAIN peers
    /\ Len(disconnect_receiver) < MaxQueue
    /\ peers' = MapRemove(peers, id)
    /\ disconnect_receiver' = Append(disconnect_receiver, id)
    /\ last' = NoCall
    /\ UNCHANGED <<restVars, states, callbacks, notifications, threadVars>>

----------------------------------------------------------------------------
(* The threads that call the manager, and the mutex of `shared`.            *)

Threads == {"t1", "t2"}

\* Nobody holds the mutex.
Free == "-"

\* A thread that is in no next_state call and has made none.
IdleThread ==
    [pc |-> "idle", peer |-> "-", action |-> NoAction, overlaps |-> FALSE, cur |-> "-",
     result |-> NoResult, pending |-> <<>>, i |-> 0]

----------------------------------------------------------------------------

\* AuthorizationManager::new, ManagedAuthorizations::new
----------------------------------------------------------------------------
(* GET /admin/circuits: list_circuits and query_list_circuits.  The request *)
(* is its query string, already split into the values of "filter",          *)
(* "offset" and "limit" (None when the key is absent); a value is the       *)
(* sequence of its characters.                                              *)

\* Option<T>: None and Some(value)
None == [some |-> FALSE]
Some(value) == [some |-> TRUE, value |-> value]

\* The largest store of few circuits, in any order.
MaxCircuits == 3

\* A store of more circuits than the default limit.
LargeStore == 101

\* paging::DEFAULT_LIMIT and paging::DEFAULT_OFFSET
DEFAULT_LIMIT == 100
DEFAULT_OFFSET == 0

Nodes == {"node_1", "node_2", "node_3"}

\* The circuit number n of a store: its members follow the number.
Circuit(n) ==
    [id |-> n,
     members |-> IF n % 3 = 1 THEN <<"node_1", "node_2">>
                 ELSE IF n % 3 = 2 THEN <<"node_3", "node_2">>
                 ELSE <<"node_3">>,
     circuit_management_type |-> IF n % 2 = 0 THEN "even_type" ELSE "odd_type"]

\* The stores: the circuits 1..n for n up to MaxCircuits in every order, and
\* the circuits 1..LargeStore in the order of their numbers.
Stores ==
    {s \in UNION {[1..n -> {Circuit(i) : i \in 1..n}] : n \in 0..MaxCircuits} :
        \A i, j \in DOMAIN s : i # j => s[i] # s[j]}
    \cup {[i \in 1..LargeStore |-> Circuit(i)]}

\* The values a query string gives to "offset" and to "limit".
Values ==
    {<<"0">>, <<"1">>, <<"2">>, <<"1", "0">>, <<"+", "1">>, <<"-", "1">>, <<"x">>, <<>>}

Digit ==
    ("0" :> 0) @@ ("1" :> 1) @@ ("2" :> 2) @@ ("3" :> 3) @@ ("4" :> 4) @@
    ("5" :> 5) @@ ("6" :> 6) @@ ("7" :> 7) @@ ("8" :> 8) @@ ("9" :> 9)

RECURSIVE ParseDigits(_, _)
ParseDigits(value, acc) ==
    IF value = <<>> THEN [ok |-> TRUE, val |-> acc]
    ELSE IF Head(value) \notin DOMAIN Digit THEN [ok |-> FALSE, val |-> 0]
    ELSE ParseDigits(Tail(value), acc * 10 + Digit[Head(value)])

\* value.parse::<usize>(): an optional "+" and then one decimal digit at
\* least.  The values of the model are far from the width of usize.
ParseUsize(value) ==
    LET digits == IF value # <<>> /\ Head(value) = "+" THEN Tail(value) ELSE value
    IN IF digits = <<>> THEN [ok |-> FALSE, val |-> 0] ELSE ParseDigits(digits, 0)

\* CircuitFilter::WithMember(member)
WithMember(circuit, member) == \E i \in DOMAIN circuit.members : circuit.members[i] = member

\* store.circuits(filter): the circuits of the store the filter keeps, in the
\* order of the store; total() is their number.
StoreCircuits(circuits, filter) ==
    IF ~filter.some THEN circuits
    ELSE SelectSeq(circuits, LAMBDA circuit : WithMember(circuit, filter.value))

\* .map(|circuit| CircuitResponse { ... })
CircuitResponse(circuit) ==
    [id |-> circuit.id,
     members |-> circuit.members,
     circuit_management_type |-> circuit.circuit_management_type]

\* Iterator::skip counting the circuits from one
SkipOneLess(s, n) ==
    IF n >= Len(s) + 1 THEN <<>> ELSE SubSeq(s, IF n = 0 THEN 1 ELSE n, Len(s))

\* Iterator::skip
Skip(s, n) == IF n >= Len(s) THEN <<>> ELSE SubSeq(s, n + 1, Len(s))

\* Iterator::take
Take(s, n) == IF n >= Len(s) THEN s ELSE SubSeq(s, 1, n)

\* get_response_paging_info(limit, offset, link, total)
GetResponsePagingInfo(limit, offset, link, total) ==
    [limit |-> limit, offset |-> offset, link |-> link, total |-> total]

NoPaging == GetResponsePagingInfo(0, 0, <<>>, 0)

BadRequest(message) == [status |-> 400, message |-> message, data |-> <<>>, paging |-> NoPaging]
InternalServerError == [status |-> 500, message |-> "internal error", data |-> <<>>, paging |-> NoPaging]
HttpOk(data, paging) == [status |-> 200, message |-> "-", data |-> data, paging |-> paging]

\* query_list_circuits with an offset and a limit given
QueryListCircuits(circuits, fails, link, filters, offset, limit) ==
    IF fails THEN InternalServerError
    ELSE LET found == StoreCircuits(circuits, filters)
             total == Len(found)
             circuits_data ==
                 Take(Skip([i \in DOMAIN found |-> CircuitResponse(found[i])], offset), limit)
         IN HttpOk(circuits_data, GetResponsePagingInfo(limit, offset, link, total))

\* list_circuits
ListCircuits(circuits, fails, query) ==
    LET offset == IF ~query.offset.some THEN [ok |-> TRUE, val |-> DEFAULT_OFFSET]
                  ELSE ParseUsize(query.offset.value)
        limit == IF ~query.limit.some THEN [ok |-> TRUE, val |-> DEFAULT_LIMIT]
                 ELSE ParseUsize(query.limit.value)
        link == IF ~query.filter.some THEN <<"/admin/circuits">>
                ELSE <<"/admin/circuits", "?filter=", query.filter.value, "&">>
    IN IF ~offset.ok THEN BadRequest("Invalid offset value passed")
       ELSE IF ~limit.ok THEN BadRequest("Invalid limit value passed")
       ELSE QueryListCircuits(circuits, fails, link, query.filter, offset.val, limit.val)

NoRequest == [filter |-> None, offset |-> None, limit |-> None, sent |-> FALSE]
NoResponse == [status |-> 0, message |-> "-", data |-> <<>>, paging |-> NoPaging]

\* A GET /admin/circuits request and its response: each request of a client
\* is answered once.
Get(filter, offset, limit, fails) ==
    LET query == [filter |-> filter, offset |-> offset, limit |-> limit, sent |-> TRUE]
    IN /\ ~request.sent
       /\ request' = query
       /\ response' = ListCircuits(store, fails, query)
       /\ UNCHANGED <<store, states, callbacks, disconnect_receiver, peers, notifications,
                      last, threadVars>>

\* AuthorizationManager::new
New ==
    /\ states = EmptyMap
    /\ callbacks = <<>>
    /\ disconnect_receiver = <<>>
    /\ peers = EmptyMap
    /\ notifications = <<>>
    /\ last = NoCall
    /\ lock = Free
    /\ threads = [t \in Threads |-> IdleThread]
    /\ published = <<>>
    /\ calls = 0

Init ==
    /\ New
    /\ store = <<>>
    /\ request = NoRequest
    /\ response = NoResponse

\* The REST API of a node whose store holds any of the stores.
InitCircuits ==
    /\ New
    /\ store \in Stores
    /\ request = NoRequest
    /\ response = NoResponse

NextCircuits ==
    \E filter \in {Some(node) : node \in Nodes} \cup {None},
       offset \in {Some(value) : value \in Values} \cup {None},
       limit \in {Some(value) : value \in Values} \cup {None},
       fails \in BOOLEAN :
        Get(filter, offset, limit, fails)

SpecCircuits == InitCircuits /\ [][NextCircuits]_vars

Next ==
    \/ \E peer_id \in Identities, action \in AuthorizationAction : NextState(peer_id, action)
    \/ \E peer_id \in Identities : IsAuthorized(peer_id)
    \/ \E callback \in Recorders : RegisterCallback(callback)
    \/ \E id \in Identities, endpoint \in Endpoints : AddConnection(id, endpoint)
    \/ \E id \in Identities : Disconnect(id)

Spec == Init /\ [][Next]_vars

----------------------------------------------------------------------------
(* Callbacks registered at any time, one after the other, between the calls *)
(* of the manager.                                                          *)

\* The new callback put before the others.
RegisterPrepends(callback) ==
    /\ Len(callbacks) < MaxObservers
    /\ callbacks' = <<callback>> \o callbacks
    /\ notifications' = <<<<>>>> \o notifications
    /\ last' = [op |-> "register_callback", peer |-> "-", action |-> NoAction,
                removals |-> {}, before |-> "-", cur |-> "-", result |-> NoResult,
                answer |-> FALSE]
    /\ UNCHANGED <<restVars, states, disconnect_receiver, peers, threadVars>>

\* register_callback, called while callbacks are registered already:
\* shared.callbacks.push(callback)
RegisterAnother(callback) ==
    /\ Len(callbacks) < MaxObservers
    /\ callbacks' = Append(callbacks, callback)
    /\ notifications' = Append(notifications, <<>>)
    /\ last' = [op |-> "register_callback", peer |-> "-", action |-> NoAction,
                removals |-> {}, before |-> "-", cur |-> "-", result |-> NoResult,
                answer |-> FALSE]
    /\ UNCHANGED <<restVars, states, disconnect_receiver, peers, threadVars>>

ObserversNext ==
    \/ \E peer_id \in Identities, action \in AuthorizationAction : NextState(peer_id, action)
    \/ \E peer_id \in Identities : IsAuthorized(peer_id)
    \/ \E callback \in Recorders : RegisterAnother(callback)
    \/ \E id \in Identities, endpoint \in {TcpEndpoint, InprocEndpoint} :
          AddConnection(id, endpoint)
    \/ \E id \in Identities : Disconnect(id)

SpecObservers == Init /\ [][ObserversNext]_vars

----------------------------------------------------------------------------
(* next_state step by step, called by several threads.  A thread takes the  *)
(* mutex, drains the channel and reads the state, runs the arm of the match *)
(* (the table and the Network), calls the callbacks one by one, and gives   *)
(* the mutex back when it returns.  is_authorized and register_callback     *)
(* touch nothing but what the mutex guards, so each is one step, taken when *)
(* the mutex is free.  Connections are accepted and lost and callbacks are  *)
(* registered before the first next_state call; from then on the Network    *)
(* changes through the manager only.                                        *)

\* Callbacks that call the manager they are registered with from inside
\* on_authorization_change: the call they make.
Reentrant == {"is_authorized", "register_callback", "next_state"}

\* callback.on_authorization_change(...): what the callback returns
OnAuthorizationChange(callback) == IF callback = "err" THEN "Err" ELSE "Ok"

\* The Err of a callback ends the loop (callback.on_authorization_change(...)?).
AfterCallbackStopsOnErr(ret, i, n) == IF ret = "Err" THEN n + 1 ELSE i + 1

\* for callback in shared.callbacks.iter(): the index after callback i
AfterCallback(ret, i, n) == i + 1

\* What the arm hands to notify_callbacks: <<>> when it calls no callback.
Pending(out) ==
    IF Len(callbacks) = 0 \/ out.notifications = notifications THEN <<>>
    ELSE <<out.notifications[1][Len(out.notifications[1])]>>

\* A thread calls next_state(peer_id, action); the call overlaps the call
\* another thread is in.  The first call of all is made by t1.
Call(t, peer_id, action) ==
    /\ threads[t].pc = "idle"
    /\ t = "t2" => calls > 0
    /\ calls < MaxCalls
    /\ calls' = calls + 1
    /\ threads' = [threads EXCEPT ![t] =
                     [IdleThread EXCEPT !.pc = "lock", !.peer = peer_id, !.action = action,
                                        !.overlaps = \E u \in Threads \ {t} :
                                                        threads[u].pc # "idle"]]
    /\ UNCHANGED <<restVars, states, callbacks, disconnect_receiver, peers, notifications, last,
                   lock, published>>

\* The table used without waiting for the mutex.
LockSharedNotExclusive(t) ==
    /\ threads[t].pc = "lock"
    /\ lock' = t
    /\ threads' = [threads EXCEPT ![t].pc = "drain"]
    /\ UNCHANGED <<restVars, states, callbacks, disconnect_receiver, peers, notifications, last,
                   published, calls>>

\* let mut shared = mutex_lock_unwrap!(self.shared)
LockShared(t) ==
    /\ threads[t].pc = "lock"
    /\ lock = Free
    /\ lock' = t
    /\ threads' = [threads EXCEPT ![t].pc = "drain"]
    /\ UNCHANGED <<restVars, states, callbacks, disconnect_receiver, peers, notifications, last,
                   published, calls>>

\* The drain waits until a disconnect event is there (iter() for try_iter()).
DrainAndReadBlocking(t) ==
    /\ threads[t].pc = "drain"
    /\ disconnect_receiver # <<>>
    /\ states' = DrainRemovals(states, disconnect_receiver)
    /\ disconnect_receiver' = <<>>
    /\ threads' = [threads EXCEPT ![t].pc = "match",
                                  ![t].cur = GetOrUnknown(states', threads[t].peer)]
    /\ UNCHANGED <<restVars, callbacks, peers, notifications, last, lock, published, calls>>

\* let removals = shared.disconnect_receiver.try_iter().collect::<Vec<_>>();
\* for peer_id in removals.into_iter() { shared.states.remove(&peer_id); }
\* let cur_state = shared.states.get(peer_id).unwrap_or(&Unknown)
DrainAndRead(t) ==
    /\ threads[t].pc = "drain"
    /\ states' = DrainRemovals(states, disconnect_receiver)
    /\ disconnect_receiver' = <<>>
    /\ threads' = [threads EXCEPT ![t].pc = "match",
                                  ![t].cur = GetOrUnknown(states', threads[t].peer)]
    /\ UNCHANGED <<restVars, callbacks, peers, notifications, last, lock, published, calls>>

\* The mutex given back before notify_callbacks is called.
MatchActionUnlocks(t) ==
    /\ threads[t].pc = "match"
    /\ \E out \in Dispatch(states, threads[t].cur, threads[t].peer, threads[t].action) :
         LET pending == Pending(out) IN
         /\ states' = out.states
         /\ peers' = out.peers
         /\ disconnect_receiver' = disconnect_receiver \o out.sent
         /\ published' = published \o pending
         /\ lock' = IF pending = <<>> THEN lock ELSE Free
         /\ threads' = [threads EXCEPT ![t].pc = IF pending = <<>> THEN "return" ELSE "notify",
                                       ![t].result = out.result,
                                       ![t].pending = pending,
                                       ![t].i = 1]
    /\ UNCHANGED <<restVars, callbacks, notifications, last, calls>>

\* match *cur_state { ... }: the table and the Network, up to notify_callbacks
MatchAction(t) ==
    /\ threads[t].pc = "match"
    /\ \E out \in Dispatch(states, threads[t].cur, threads[t].peer, threads[t].action) :
         LET pending == Pending(out) IN
         /\ states' = out.states
         /\ peers' = out.peers
         /\ disconnect_receiver' = disconnect_receiver \o out.sent
         /\ published' = published \o pending
         /\ threads' = [threads EXCEPT ![t].pc = IF pending = <<>> THEN "return" ELSE "notify",
                                       ![t].result = out.result,
                                       ![t].pending = pending,
                                       ![t].i = 1]
    /\ UNCHANGED <<restVars, callbacks, notifications, last, lock, calls>>

\* One turn of the loop of notify_callbacks: the callback is called, and an
\* Err it returns is logged.
NotifyCallback(t) ==
    /\ threads[t].pc = "notify"
    /\ callbacks[threads[t].i] \notin Reentrant
    /\ LET i == threads[t].i
           ret == OnAuthorizationChange(callbacks[i])
           next == AfterCallback(ret, i, Len(callbacks))
       IN /\ notifications' =
                [notifications EXCEPT ![i] = Append(@, threads[t].pending[1])]
          /\ threads' = [threads EXCEPT ![t].i = next,
                                        ![t].pc = IF next > Len(callbacks)
                                                  THEN "return" ELSE "notify"]
    /\ UNCHANGED <<restVars, states, callbacks, disconnect_receiver, peers, last, lock, published,
                   calls>>

\* next_state returns: `shared` goes out of scope and the mutex is given back.
ReturnResult(t) ==
    /\ threads[t].pc = "return"
    /\ lock' = Free
    /\ threads' = [threads EXCEPT ![t].pc = "idle", ![t].cur = "-", ![t].pending = <<>>,
                                  ![t].i = 0]
    /\ UNCHANGED <<restVars, states, callbacks, disconnect_receiver, peers, notifications, last,
                   published, calls>>

\* is_authorized called by any thread: it waits for the mutex.
LockedIsAuthorized(peer_id) ==
    /\ lock = Free
    /\ states' = DrainRemovals(states, disconnect_receiver)
    /\ disconnect_receiver' = <<>>
    /\ last' = NoCall
    /\ UNCHANGED <<restVars, callbacks, peers, notifications, threadVars>>

\* A connection is accepted before the threads start to call next_state.
Accept(id, endpoint) ==
    /\ calls = 0
    /\ AddConnection(id, endpoint)

\* A connection is lost before the threads start to call next_state.
Lose(id) ==
    /\ calls = 0
    /\ Disconnect(id)

\* register_callback called by any thread: it waits for the mutex.
LockedRegisterCallback(callback) ==
    /\ lock = Free
    /\ calls = 0
    /\ Len(callbacks) < MaxObservers
    /\ callbacks' = Append(callbacks, callback)
    /\ notifications' = Append(notifications, <<>>)
    /\ last' = NoCall
    /\ UNCHANGED <<restVars, states, disconnect_receiver, peers, threadVars>>

ThreadsNext ==
    \/ \E t \in Threads, peer_id \in Identities, action \in AuthorizationAction :
          Call(t, peer_id, action)
    \/ \E t \in Threads : LockShared(t)
    \/ \E t \in Threads : DrainAndRead(t)
    \/ \E t \in Threads : MatchAction(t)
    \/ \E t \in Threads : NotifyCallback(t)
    \/ \E t \in Threads : ReturnResult(t)
    \/ \E peer_id \in Identities : LockedIsAuthorized(peer_id)
    \/ \E callback \in CallbackKinds : LockedRegisterCallback(callback)
    \/ \E id \in Identities, endpoint \in {TcpEndpoint, InprocEndpoint} :
          Accept(id, endpoint)
    \/ \E id \in Identities : Lose(id)

SpecThreads == Init /\ [][ThreadsNext]_vars

----------------------------------------------------------------------------
(* One thread calling next_state while the Network loses connections at any *)
(* time.  A thread that has the mutex is running: it takes its next step    *)
(* (a callback it calls returns).                                           *)

\* What a thread does between lock() and its return.
Running(t) == DrainAndRead(t) \/ MatchAction(t) \/ NotifyCallback(t) \/ ReturnResult(t)

LiveNext ==
    \/ \E peer_id \in Identities, action \in AuthorizationAction :
          Call("t1", peer_id, action)
    \/ LockShared("t1")
    \/ DrainAndRead("t1")
    \/ MatchAction("t1")
    \/ NotifyCallback("t1")
    \/ ReturnResult("t1")
    \/ \E peer_id \in Identities : LockedIsAuthorized(peer_id)
    \/ \E callback \in CallbackKinds : LockedRegisterCallback(callback)
    \/ \E id \in Identities, endpoint \in {TcpEndpoint, InprocEndpoint} :
          Accept(id, endpoint)
    \/ \E id \in Identities : Disconnect(id)

SpecLive == Init /\ [][LiveNext]_vars /\ WF_vars(Running("t1"))

----------------------------------------------------------------------------
(* Callbacks that call the manager.  is_authorized and next_state begin     *)
(* with mutex_lock_unwrap!(self.shared) and register_callback with          *)
(* self.shared.lock(): the thread that runs the callback holds that mutex.  *)

\* The mutex after a thread panicked while it held it.
Poisoned == "poisoned"

\* A mutex that lets the thread that holds it lock it again.
RelockReentrant == {"acquired"}

\* std::sync::Mutex::lock called by the thread that holds the mutex: the call
\* does not return; whether it blocks for ever or panics is left open.
Relock == {"deadlock", "panic"}

\* One turn of the loop of notify_callbacks, the callback calling the manager:
\* it has been called with the status, and its call of the manager locks the
\* mutex again.  A panic unwinds next_state and drops the guard, which
\* poisons the mutex.
Reenter(t) ==
    /\ threads[t].pc = "notify"
    /\ callbacks[threads[t].i] \in Reentrant
    /\ lock = t
    /\ LET i == threads[t].i IN
       /\ notifications' =
             [notifications EXCEPT ![i] = Append(@, threads[t].pending[1])]
       /\ \E outcome \in Relock :
            CASE outcome = "deadlock" ->
                   /\ threads' = [threads EXCEPT ![t].pc = "blocked"]
                   /\ lock' = lock
              [] outcome = "panic" ->
                   /\ threads' = [threads EXCEPT ![t].pc = "panicked"]
                   /\ lock' = Poisoned
              [] OTHER ->
                   /\ threads' = [threads EXCEPT ![t].i = i + 1,
                                                 ![t].pc = IF i + 1 > Len(callbacks)
                                                           THEN "return" ELSE "notify"]
                   /\ lock' = lock
    /\ UNCHANGED <<restVars, states, callbacks, disconnect_receiver, peers, last, published,
                   calls>>

ReentrantNext ==
    \/ \E peer_id \in Identities, action \in AuthorizationAction :
          Call("t1", peer_id, action)
    \/ LockShared("t1")
    \/ DrainAndRead("t1")
    \/ MatchAction("t1")
    \/ NotifyCallback("t1")
    \/ Reenter("t1")
    \/ ReturnResult("t1")
    \/ \E peer_id \in Identities : LockedIsAuthorized(peer_id)
    \/ \E callback \in Recorders \cup Reentrant : LockedRegisterCallback(callback)
    \/ \E id \in Identities, endpoint \in {TcpEndpoint, InprocEndpoint} :
          Accept(id, endpoint)
    \/ \E id \in Identities : Disconnect(id)

SpecReentrant ==
    Init /\ [][ReentrantNext]_vars /\ WF_vars(Running("t1") \/ Reenter("t1"))

----------------------------------------------------------------------------
(* What a call of is_authorized(peer_id) made now would return.             *)

Answer(peer_id) == Authorized(DrainRemovals(states, disconnect_receiver), peer_id)

Returned(kind, result) ==
    /\ last.op = "next_state"
    /\ last.action.kind = kind
    /\ last.result = result

----------------------------------------------------------------------------
(* C1 *)

\* C1, as claimed: when next_state(p, TrustIdentifying(q)) has returned
\* Ok(Authorized), is_authorized(p) returns false and is_authorized(q) returns
\* true, for every p and q.
C1_AsClaimed ==
    Returned("TrustIdentifying", Ok("Authorized")) =>
        /\ ~Answer(last.peer)
        /\ Answer(last.action.id)

\* C1, amended: when next_state(p, TrustIdentifying(q)) has returned
\* Ok(Authorized) for a Connecting peer p, is_authorized(q) returns true, and
\* is_authorized(p) returns false when p is another identifier than q.
C1_TrustIdentifyingAuthorizesNewId ==
    Returned("TrustIdentifying", Ok("Authorized")) =>
        /\ last.cur = "Connecting"
        /\ Answer(last.action.id)
        /\ (last.peer # last.action.id => ~Answer(last.peer))

C1_Witness ==
    /\ Returned("TrustIdentifying", Ok("Authorized"))
    /\ last.peer = "temp-1"
    /\ last.action.id = "abcd"
    /\ Answer("abcd")
    /\ ~Answer("temp-1")

----------------------------------------------------------------------------
(* C2 *)

\* C2: when next_state(p, Unauthorizing) has returned Ok(Unauthorized), from
\* Unknown, Connecting or Authorized, p has no entry in the table,
\* is_authorized(p) returns false and the Network has no peer p.
C2_UnauthorizedIsEvicted ==
    Returned("Unauthorizing", Ok("Unauthorized")) =>
        /\ last.cur \in {"Unknown", "Connecting", "Authorized"}
        /\ last.peer \notin DOMAIN states
        /\ ~Answer(last.peer)
        /\ last.peer \notin DOMAIN peers

C2_Witness ==
    /\ Returned("Unauthorizing", Ok("Unauthorized"))
    /\ last.cur = "Authorized"
    /\ last.peer \notin DOMAIN states
    /\ last.peer \notin DOMAIN peers

----------------------------------------------------------------------------
(* C3 *)

----------------------------------------------------------------------------
(* C4 *)

\* C4: is_authorized(p) returns true exactly when the table, drained of the
\* queued disconnects, holds p as Authorized or as Internal; its answer is a
\* boolean, false for a peer with no entry and for a Connecting peer.
C4_IsAuthorizedIffAuthorizedOrInternal ==
    last.op = "is_authorized" =>
        /\ last.answer \in BOOLEAN
        /\ disconnect_receiver = <<>>
        /\ last.removals \cap DOMAIN states = {}
        /\ last.answer =
              (\E p \in DOMAIN states :
                  p = last.peer /\ states[p] \in {"Authorized", "Internal"})

C4_Witness ==
    /\ last.op = "is_authorized"
    /\ last.answer = TRUE
    /\ states[last.peer] = "Internal"
    /\ last.removals # {}

----------------------------------------------------------------------------
(* C5 *)

\* The statuses a callback was given for peer p, in order.
StatusesFor(log, p) ==
    LET mine == SelectSeq(log, LAMBDA n : n[1] = p)
    IN [j \in 1..Len(mine) |-> mine[j][2]]

\* The table as a call that begins now reads it, the channel drained.
Drained == DrainRemovals(states, disconnect_receiver)

\* C5, as claimed: for every callback and every peer p, the statuses published
\* for p are a prefix of (Authorized*, Unauthorized?): only the last of them
\* may be Unauthorized.
C5_AsClaimed ==
    \A i \in 1..Len(notifications) : \A p \in Identities :
        LET s == StatusesFor(notifications[i], p)
        IN \A j \in 1..(Len(s) - 1) : s[j] = "Authorized"

\* C5, amended: a call publishes at most one status to a callback, and
\* Unauthorized is published for p only by a next_state(p, Unauthorizing) that
\* reads p's entry as Connecting or Authorized and removes it, with p removed
\* from the Network: it is never published twice for one entry of p.
C5_UnauthorizedOncePerEntry ==
    [][\A i \in 1..Len(notifications) :
          notifications'[i] # notifications[i] =>
              /\ Len(notifications'[i]) = Len(notifications[i]) + 1
              /\ SubSeq(notifications'[i], 1, Len(notifications[i])) = notifications[i]
              /\ LET n == notifications'[i][Len(notifications'[i])]
                 IN n[2] = "Unauthorized" =>
                        /\ last'.op = "next_state"
                        /\ last'.action.kind = "Unauthorizing"
                        /\ n[1] = last'.peer
                        /\ GetOrUnknown(Drained, n[1]) \in {"Connecting", "Authorized"}
                        /\ n[1] \notin DOMAIN states'
                        /\ n[1] \notin DOMAIN peers'
      ]_vars

C5_Witness ==
    /\ Returned("Unauthorizing", Ok("Unauthorized"))
    /\ last.peer = "abcd"
    /\ Len(notifications) = 1
    /\ notifications[1] = <<<<"abcd", "Authorized">>, <<"abcd", "Unauthorized">>>>

----------------------------------------------------------------------------
(* C6 *)

\* C6, as claimed: when a next_state call has returned, every identifier the
\* table holds (as Connecting, Authorized or Internal) is a peer of the Network.
C6_AsClaimed ==
    last.op = "next_state" => \A p \in DOMAIN states : p \in DOMAIN peers

\* C6, amended: when a next_state call has returned, every identifier the
\* table holds as Authorized or Internal is a peer of the Network; a
\* Connecting entry may be held for an identifier the Network does not know.
C6_AuthorizedHasEndpoint ==
    last.op = "next_state" =>
        \A p \in DOMAIN states :
            states[p] \in {"Authorized", "Internal"} => p \in DOMAIN peers

C6_Witness ==
    /\ Returned("Connecting", Ok("Connecting"))
    /\ last.peer \notin DOMAIN peers
    /\ \E q \in DOMAIN states : states[q] = "Authorized" /\ q \in DOMAIN peers

----------------------------------------------------------------------------
(* C7 *)

\* C7, as claimed: when a next_state or is_authorized call has returned, no
\* identifier it received from the channel has an entry in the table.
C7_AsClaimed ==
    last.op \in {"next_state", "is_authorized"} =>
        \A p \in last.removals : p \notin DOMAIN states

\* C7, amended: when a next_state or is_authorized call has returned, an
\* identifier p it received from the channel has an entry only if the call
\* itself inserted it after the drain: next_state(p, Connecting), which read p as
\* Unknown, or next_state(r, TrustIdentifying(p)) of a Connecting peer r.
C7_DrainedUnlessInsertedAnew ==
    last.op \in {"next_state", "is_authorized"} =>
        \A p \in last.removals :
            p \in DOMAIN states =>
                /\ last.op = "next_state"
                /\ last.result.ok
                /\ \/ /\ last.peer = p
                      /\ last.action.kind = "Connecting"
                      /\ last.cur = "Unknown"
                      /\ states[p] \in {"Connecting", "Internal"}
                   \/ /\ last.action = [kind |-> "TrustIdentifying", id |-> p]
                      /\ last.cur = "Connecting"
                      /\ states[p] = "Authorized"

C7_Witness ==
    /\ Returned("Connecting", Ok("Connecting"))
    /\ last.peer \in last.removals
    /\ last.before = "Authorized"
    /\ states[last.peer] = "Connecting"

----------------------------------------------------------------------------
(* C8 *)

\* C8, as claimed: a next_state call that returns an error has changed no
\* entry of the table (the drain aside): a transition takes effect in the
\* table and in the Network, or in neither.
C8_AsClaimed ==
    [][(last'.op = "next_state" /\ ~last'.result.ok) => states' = Drained]_vars

\* C8, amended: a next_state call that returns Ok leaves the table and the
\* Network in the new state; one that returns AlreadyConnecting or
\* InvalidMessageOrder changes neither (the drain aside); one that returns
\* ConnectionLost has removed the peer's entry and inserted none.
C8_TransitionEffects ==
    [][last'.op = "next_state" =>
          LET p == last'.peer
              q == last'.action.id
              r == last'.result
          IN /\ (r.ok /\ r.state \in {"Connecting", "Internal"}) =>
                    /\ states' = MapInsert(Drained, p, r.state)
                    /\ peers' = peers
             /\ (r.ok /\ r.state = "Authorized") =>
                    /\ states' = MapInsert(MapRemove(Drained, p), q, "Authorized")
                    /\ p \in DOMAIN peers
                    /\ q \in DOMAIN peers'
                    /\ peers'[q] = peers[p]
                    /\ p # q => p \notin DOMAIN peers'
             /\ (r.ok /\ r.state = "Unauthorized") =>
                    /\ states' = MapRemove(Drained, p)
                    /\ peers' = MapRemove(peers, p)
             /\ r.err \in {"AlreadyConnecting", "InvalidMessageOrder"} =>
                    /\ states' = Drained
                    /\ peers' = peers
             /\ r.err = "ConnectionLost" => states' = MapRemove(Drained, p)
             /\ (r.ok /\ r.state \notin {"Authorized", "Unauthorized"}) \/ ~r.ok =>
                    disconnect_receiver' = <<>>
      ]_vars

C8_Witness ==
    /\ last.op = "next_state"
    /\ last.result = Err("ConnectionLost", "-")
    /\ last.cur = "Authorized"
    /\ last.peer \notin DOMAIN states
    /\ last.peer \in DOMAIN peers

----------------------------------------------------------------------------
(* C9 *)

\* C9: in every reachable state the table holds only Connecting, Authorized
\* and Internal: Unauthorized and Unknown are never stored, Unauthorized is a
\* value next_state returns.
C9_NoTombstone ==
    /\ \A p \in DOMAIN states : states[p] \in {"Connecting", "Authorized", "Internal"}
    /\ DOMAIN states \subseteq Identities
    /\ (last.op = "next_state" /\ last.result.ok) =>
           last.result.state \in AuthorizationState \ {"Unknown"}

C9_Witness ==
    /\ Returned("Unauthorizing", Ok("Unauthorized"))
    /\ last.cur = "Connecting"
    /\ DOMAIN states # {}

----------------------------------------------------------------------------
(* C10 *)

\* C10: a callback is called by next_state only, with (q, Authorized) when
\* TrustIdentifying(q) returns Ok(Authorized), with (p, Authorized) when
\* Connecting returns Ok(Internal), with (p, Unauthorized) when Unauthorizing
\* of a Connecting or Authorized p returns Ok(Unauthorized); Ok(Connecting)
\* and every Err call no callback.  So a recorder registered before
\* Connecting and TrustIdentifying(q) holds (q, Authorized) and nothing else.
C10_OnlyTerminalStatusesPublished ==
    [][\A i \in 1..Len(notifications) :
          LET old == notifications[i]
              new == notifications'[i]
              r == last'.result
          IN IF last'.op # "next_state" THEN new = old
             ELSE IF r = Ok("Authorized")
                  THEN new = Append(old, <<last'.action.id, "Authorized">>)
             ELSE IF r = Ok("Internal")
                  THEN new = Append(old, <<last'.peer, "Authorized">>)
             ELSE IF r = Ok("Unauthorized") /\ last'.cur # "Unknown"
                  THEN new = Append(old, <<last'.peer, "Unauthorized">>)
             ELSE new = old
      ]_vars

C10_Witness ==
    /\ Returned("TrustIdentifying", Ok("Authorized"))
    /\ last.peer = "temp-1"
    /\ last.before = "Connecting"
    /\ Len(notifications) = 1
    /\ notifications[1] = <<<<"abcd", "Authorized">>>>

----------------------------------------------------------------------------
\* C11: when next_state(p, Connecting) has returned Ok(Connecting) (p was
\* Unknown and its endpoint in the Network is not an inproc one) and the next
\* call is next_state(p, Connecting) again, that second call returns
\* Err(AlreadyConnecting), leaves p Connecting and the table as it was,
\* leaves the Network's peers as they were and calls no callback.
C11_SecondConnectingRejected ==
    [][(/\ Returned("Connecting", Ok("Connecting"))
        /\ last'.op = "next_state"
        /\ last'.peer = last.peer
        /\ last'.action.kind = "Connecting")
       => /\ last'.cur = "Connecting"
          /\ last'.result = Err("AlreadyConnecting", "-")
          /\ states' = states
          /\ states'[last.peer] = "Connecting"
          /\ peers' = peers
          /\ notifications' = notifications
      ]_vars

C11_Witness ==
    /\ Returned("Connecting", Err("AlreadyConnecting", "-"))
    /\ last.before = "Connecting"
    /\ last.removals = {}
    /\ last.peer \in DOMAIN states
    /\ states[last.peer] = "Connecting"
    /\ last.peer \in DOMAIN peers
    /\ peers[last.peer] = TcpEndpoint
    /\ Len(callbacks) = 1
    /\ notifications[1] = <<>>

----------------------------------------------------------------------------
\* The endpoints that contain "inproc", listed one by one.
InprocEndpoints == {InprocEndpoint, ProxiedEndpoint}

\* The call that just returned is next_state(q, Connecting) for a q whose
\* entry was Authorized and whose disconnect event was in the channel.
ConnectingAfterDisconnect ==
    /\ last.op = "next_state"
    /\ last.action.kind = "Connecting"
    /\ last.before = "Authorized"
    /\ last.peer \in last.removals

\* The step is a next_state(q, TrustIdentifying(_)) that follows such a call
\* for the same q.
TrustIdentifyingFollows ==
    /\ ConnectingAfterDisconnect
    /\ last'.op = "next_state"
    /\ last'.peer = last.peer
    /\ last'.action.kind = "TrustIdentifying"

\* C12 as stated: after q was Authorized and a disconnect for q was sent,
\* next_state(q, Connecting) returns Ok(Connecting), and a following
\* TrustIdentifying on q returns Ok(Authorized).
C12_AsClaimed ==
    [][/\ ConnectingAfterDisconnect' => last'.result = Ok("Connecting")
       /\ TrustIdentifyingFollows => last'.result = Ok("Authorized")
      ]_vars

\* C12 (amended): after q was Authorized and a disconnect for q was sent,
\* next_state(q, Connecting) reads Unknown and never returns
\* InvalidMessageOrder(Authorized, Connecting): it returns Ok(Connecting), or
\* Ok(Internal) when q is in the Network again with an inproc endpoint.  A
\* TrustIdentifying(r) on q that follows Ok(Connecting) reads Connecting and
\* returns Ok(Authorized), r then being Authorized and in the Network under
\* q's endpoint, or Err(ConnectionLost) when the Network does not rename q
\* (as it does not when q is not in it).
C12_ReauthAfterDisconnect ==
    [][/\ ConnectingAfterDisconnect' =>
            /\ last'.cur = "Unknown"
            /\ last'.result =
                  IF /\ last'.peer \in DOMAIN peers'
                     /\ peers'[last'.peer] \in InprocEndpoints
                  THEN Ok("Internal") ELSE Ok("Connecting")
       /\ (TrustIdentifyingFollows /\ last.result = Ok("Connecting")) =>
            /\ last'.cur = "Connecting"
            /\ last'.result \in {Ok("Authorized"), Err("ConnectionLost", "-")}
            /\ last.peer \notin DOMAIN peers => last'.result = Err("ConnectionLost", "-")
            /\ last'.result = Err("ConnectionLost", "-") => peers' = peers
            /\ last'.result = Ok("Authorized") =>
                  /\ last.peer \in DOMAIN peers
                  /\ last'.action.id \in DOMAIN peers'
                  /\ peers'[last'.action.id] = peers[last.peer]
                  /\ last'.action.id \in DOMAIN states'
                  /\ states'[last'.action.id] = "Authorized"
      ]_vars

\* abcd was authorized, disconnected, accepted again, and authorized again:
\* the recorder holds (abcd, Authorized) twice and no Unauthorized.
C12_Witness ==
    /\ Returned("TrustIdentifying", Ok("Authorized"))
    /\ last.peer = "abcd"
    /\ last.action.id = "abcd"
    /\ last.before = "Connecting"
    /\ Len(notifications) = 1
    /\ notifications[1] = <<<<"abcd", "Authorized">>, <<"abcd", "Authorized">>>>
    /\ Answer("abcd")

----------------------------------------------------------------------------
\* C13: a next_state(p, Connecting) that reads p as Unknown stores and
\* returns Internal, makes is_authorized(p) true and calls every callback
\* once with (p, Authorized) exactly when the Network's endpoint for p
\* contains "inproc"; in every other case (another endpoint, or no endpoint)
\* it stores and returns Connecting, calls no callback, and is_authorized(p)
\* is false.
C13_InternalIffInprocEndpoint ==
    [][(/\ last'.op = "next_state"
        /\ last'.action.kind = "Connecting"
        /\ last'.cur = "Unknown")
       => LET p == last'.peer
              answer == Authorized(DrainRemovals(states', disconnect_receiver'), p)
          IN /\ p \in DOMAIN states'
             /\ peers' = peers
             /\ IF p \in DOMAIN peers /\ peers[p] \in InprocEndpoints
                THEN /\ last'.result = Ok("Internal")
                     /\ states'[p] = "Internal"
                     /\ answer
                     /\ \A i \in 1..Len(callbacks) :
                           notifications'[i] =
                               Append(notifications[i], <<p, "Authorized">>)
                ELSE /\ last'.result = Ok("Connecting")
                     /\ states'[p] = "Connecting"
                     /\ ~answer
                     /\ notifications' = notifications
      ]_vars

\* Connecting has returned Ok(Internal) for a peer whose endpoint has "inproc"
\* in the middle, and the recorder was called with (p, Authorized).
C13_Witness ==
    /\ Returned("Connecting", Ok("Internal"))
    /\ last.cur = "Unknown"
    /\ peers[last.peer] = ProxiedEndpoint
    /\ states[last.peer] = "Internal"
    /\ Answer(last.peer)
    /\ Len(notifications) = 1
    /\ notifications[1] = <<<<last.peer, "Authorized">>>>

----------------------------------------------------------------------------
\* C14: a next_state call that reads its peer as Internal returns
\* Err(InvalidMessageOrder(Internal, action)) whatever the action and changes
\* nothing: the entry stays Internal, the table is the drained table, the
\* Network's peers are as they were and no callback is called.  An
\* is_authorized that reads Internal answers true, and a peer stored as
\* Internal with no disconnect event of its own in the channel is still
\* stored as authorized after any step.
C14_InternalIsTerminal ==
    [][/\ (last'.op = "next_state" /\ last'.cur = "Internal") =>
            /\ last'.result = InvalidMessageOrder("Internal", last'.action)
            /\ states' = Drained
            /\ states'[last'.peer] = "Internal"
            /\ peers' = peers
            /\ notifications' = notifications
            /\ Authorized(DrainRemovals(states', disconnect_receiver'), last'.peer)
       /\ (/\ last'.op = "is_authorized"
           /\ GetOrUnknown(Drained, last'.peer) = "Internal") => last'.answer
       /\ \A p \in Identities :
            (/\ GetOrUnknown(states, p) = "Internal"
             /\ p \notin Range(disconnect_receiver)) => Authorized(states', p)
      ]_vars

\* Unauthorizing was refused for an Internal peer, which is still authorized.
C14_Witness ==
    /\ last.op = "next_state"
    /\ last.action.kind = "Unauthorizing"
    /\ last.result = InvalidMessageOrder("Internal", last.action)
    /\ last.peer \in DOMAIN peers
    /\ states[last.peer] = "Internal"
    /\ Answer(last.peer)

----------------------------------------------------------------------------
\* What next_state may return.
Results ==
    {Ok(state) : state \in {"Connecting", "Authorized", "Unauthorized", "Internal"}}
    \cup {Err("AlreadyConnecting", "-"), Err("ConnectionLost", "-")}
    \cup {InvalidMessageOrder(state, action) :
             state \in AuthorizationState, action \in AuthorizationAction}

\* C15: every next_state call returns a result, whatever the state and the
\* action: TrustIdentifying read against Unknown returns
\* Err(InvalidMessageOrder(Unknown, action)), Connecting or TrustIdentifying
\* read against Authorized returns Err(InvalidMessageOrder(Authorized,
\* action)); an InvalidMessageOrder carries the state read after the drain
\* and the action of the call, and the call that returns it leaves the
\* drained table, the Network's peers and every callback's record as they
\* were.
C15_InvalidOrderIsAnError ==
    [][last'.op = "next_state" =>
         LET cur == GetOrUnknown(Drained, last'.peer)
             act == last'.action
             r == last'.result
         IN /\ r \in Results
            /\ (cur = "Unknown" /\ act.kind = "TrustIdentifying") =>
                  r = InvalidMessageOrder("Unknown", act)
            /\ (cur = "Authorized" /\ act.kind \in {"Connecting", "TrustIdentifying"}) =>
                  r = InvalidMessageOrder("Authorized", act)
            /\ r.err = "InvalidMessageOrder" =>
                  /\ r.from = cur
                  /\ r.action = act
                  /\ states' = Drained
                  /\ peers' = peers
                  /\ notifications' = notifications
      ]_vars

\* Connecting was refused for an Authorized peer (the test's abcd), the
\* recorder holding what it held.
C15_Witness ==
    /\ last.op = "next_state"
    /\ last.peer = "abcd"
    /\ last.action.kind = "Connecting"
    /\ last.result = InvalidMessageOrder("Authorized", last.action)
    /\ states["abcd"] = "Authorized"
    /\ Len(notifications) = 1
    /\ notifications[1] = <<<<"abcd", "Authorized">>>>

----------------------------------------------------------------------------
\* C16 as stated: when TrustIdentifying(q) of p has returned Ok(Authorized),
\* the Network holds q and no longer p, the table holds q -> Authorized and
\* no entry for p; and after every next_state call each table key is an
\* identifier the Network holds.
C16_AsClaimed ==
    /\ Returned("TrustIdentifying", Ok("Authorized")) =>
          /\ last.action.id \in DOMAIN peers
          /\ last.peer \notin DOMAIN peers
          /\ GetOrUnknown(states, last.action.id) = "Authorized"
          /\ last.peer \notin DOMAIN states
    /\ last.op = "next_state" => DOMAIN states \subseteq DOMAIN peers

\* C16 (amended): when TrustIdentifying(q) of p returns Ok(Authorized), the
\* Network holds q under the endpoint it held p under and the table holds
\* q -> Authorized; when q is another identifier than p the Network no longer
\* holds p and the table has no entry for p.  After every next_state call
\* each table key stored as Authorized or Internal is an identifier the
\* Network holds.
C16_RekeyedWithNetwork ==
    [][last'.op = "next_state" =>
         /\ (last'.action.kind = "TrustIdentifying" /\ last'.result = Ok("Authorized")) =>
               LET p == last'.peer
                   q == last'.action.id
               IN /\ p \in DOMAIN peers
                  /\ q \in DOMAIN peers'
                  /\ peers'[q] = peers[p]
                  /\ GetOrUnknown(states', q) = "Authorized"
                  /\ q # p => (p \notin DOMAIN peers' /\ p \notin DOMAIN states')
         /\ \A k \in DOMAIN states' :
               states'[k] \in {"Authorized", "Internal"} => k \in DOMAIN peers'
      ]_vars

\* temp-1 was renamed to abcd: the Network and the table hold abcd only.
C16_Witness ==
    /\ Returned("TrustIdentifying", Ok("Authorized"))
    /\ last.peer = "temp-1"
    /\ last.action.id = "abcd"
    /\ DOMAIN peers = {"abcd"}
    /\ DOMAIN states = {"abcd"}
    /\ states["abcd"] = "Authorized"

----------------------------------------------------------------------------
\* The call that just returned is a next_state(p, Unauthorizing) that left p
\* with no table entry and out of the Network: one that returned
\* Ok(Unauthorized), or a further one after it.
Unauthorized ==
    /\ last.op = "next_state"
    /\ last.action.kind = "Unauthorizing"
    /\ last.peer \notin DOMAIN states
    /\ last.peer \notin DOMAIN peers

\* C17: a next_state(p, Unauthorizing) that returns Ok(Unauthorized) leaves p
\* with no table entry and out of the Network, and every next_state(p,
\* Unauthorizing) that follows (nothing else being called in between) reads
\* Unknown, returns Ok(Unauthorized) or Err(ConnectionLost), inserts no table
\* entry, leaves the Network's peers as they were and calls no callback.
C17_UnauthorizingIdempotent ==
    [][/\ (/\ last'.op = "next_state"
           /\ last'.action.kind = "Unauthorizing"
           /\ last'.result = Ok("Unauthorized")) => Unauthorized'
       /\ (/\ Unauthorized
           /\ last'.op = "next_state"
           /\ last'.peer = last.peer
           /\ last'.action.kind = "Unauthorizing")
          => /\ last'.cur = "Unknown"
             /\ last'.result \in {Ok("Unauthorized"), Err("ConnectionLost", "-")}
             /\ states' = Drained
             /\ last'.peer \notin DOMAIN states'
             /\ peers' = peers
             /\ notifications' = notifications
      ]_vars

\* abcd was unauthorized once, the recorder being told, and Unauthorizing
\* for it has returned Ok(Unauthorized) again, the recorder not being told.
C17_Witness ==
    /\ Returned("Unauthorizing", Ok("Unauthorized"))
    /\ last.peer = "abcd"
    /\ last.before = "Unknown"
    /\ last.removals = {"abcd"}
    /\ Unauthorized
    /\ Len(notifications) = 1
    /\ notifications[1] = <<<<"abcd", "Unauthorized">>>>

----------------------------------------------------------------------------
\* The statuses callback j has been called with if it has been called once
\* for each status published so far, the one being published now reaching
\* the callbacks in the order of their registration.
Delivered(j) ==
    IF \E t \in Threads : threads[t].pc = "notify" /\ j >= threads[t].i
    THEN SubSeq(published, 1, Len(published) - 1)
    ELSE published

\* C18: for every status an arm of next_state publishes, each registered
\* callback is called exactly once, in the order of registration: while the
\* loop is at callback i the callbacks before i have been called with the
\* status and the others not yet, and when the call returns all have.  A
\* turn of the loop leaves the result of the call, the table and the
\* Network as they are and goes on to the next callback, whether the
\* callback returns Ok or Err.
C18_EachCallbackOnceInOrder ==
    [][/\ \A j \in 1..Len(callbacks') : notifications'[j] = Delivered(j)'
       /\ \A t \in Threads :
            (threads[t].pc = "notify" /\ threads'[t] # threads[t]) =>
               /\ threads'[t].i = threads[t].i + 1
               /\ threads'[t].pc = IF threads[t].i = Len(callbacks)
                                   THEN "return" ELSE "notify"
               /\ threads'[t].result = threads[t].result
               /\ states' = states
               /\ peers' = peers
      ]_vars

\* Authorized was published to a callback that returns Err and then to one
\* that returns Ok; the call is about to return Ok(Authorized).
C18_Witness ==
    /\ callbacks = <<"err", "ok">>
    /\ \E t \in Threads :
          /\ threads[t].pc = "return"
          /\ threads[t].result = Ok("Authorized")
          /\ threads[t].pending = <<<<"abcd", "Authorized">>>>
          /\ GetOrUnknown(states, "abcd") = "Authorized"
    /\ notifications = <<<<<<"abcd", "Authorized">>>>, <<<<"abcd", "Authorized">>>>>>

----------------------------------------------------------------------------
\* The thread is between the lock() of its call and its return.
InCall(t) == threads[t].pc \in {"drain", "match", "notify", "return"}

\* The results of two next_state(p, Connecting) calls made one after the
\* other on an Unknown p.
ConnectingTwice(p) ==
    IF p \in DOMAIN peers /\ peers[p] \in InprocEndpoints
    THEN {Ok("Internal"),
          InvalidMessageOrder("Internal", [kind |-> "Connecting", id |-> "-"])}
    ELSE {Ok("Connecting"), Err("AlreadyConnecting", "-")}

\* C19: the calls of several threads take effect one at a time, in the order
\* in which they take the mutex.  A thread between its lock() and its return
\* holds the mutex, so no two are; the state a call has read is still the
\* table's when its arm runs; what the arm did to the table is still there
\* when the call notifies and returns.  When the only two calls made are
\* next_state(p, Connecting) by two threads, exactly one returns
\* Ok(Connecting) and the other Err(AlreadyConnecting) (Ok(Internal) and
\* Err(InvalidMessageOrder(Internal, Connecting)) on an inproc endpoint), as
\* when one call is made after the other.
C19_OneCallAtATime ==
    /\ \A t \in Threads : InCall(t) => lock = t
    /\ \A t \in Threads :
          threads[t].pc = "match" =>
              threads[t].cur = GetOrUnknown(states, threads[t].peer)
    /\ \A t \in Threads :
          threads[t].pc \in {"notify", "return"} =>
              LET r == threads[t].result
                  p == threads[t].peer
              IN /\ r.ok /\ r.state \in {"Connecting", "Internal"} =>
                       GetOrUnknown(states, p) = r.state
                 /\ r = Ok("Authorized") =>
                       GetOrUnknown(states, threads[t].action.id) = "Authorized"
                 /\ r \in {Ok("Unauthorized"), Err("ConnectionLost", "-")} =>
                       p \notin DOMAIN states
                 /\ r.err = "AlreadyConnecting" => GetOrUnknown(states, p) = "Connecting"
                 /\ r.err = "InvalidMessageOrder" => GetOrUnknown(states, p) = r.from
    /\ \A p \in Identities :
          (/\ calls = 2
           /\ \A t \in Threads : /\ threads[t].pc = "idle"
                                  /\ threads[t].peer = p
                                  /\ threads[t].action.kind = "Connecting")
          => {threads[t].result : t \in Threads} = ConnectingTwice(p)

\* t2 called next_state(abcd, Connecting) while t1 was in its own call of it,
\* and took the mutex first: t2 got Ok(Connecting), t1 Err(AlreadyConnecting).
C19_Witness ==
    /\ calls = 2
    /\ \A t \in Threads : /\ threads[t].pc = "idle"
                           /\ threads[t].peer = "abcd"
                           /\ threads[t].action.kind = "Connecting"
    /\ threads["t2"].overlaps
    /\ threads["t2"].result = Ok("Connecting")
    /\ threads["t1"].result = Err("AlreadyConnecting", "-")
    /\ "abcd" \in DOMAIN peers
    /\ states["abcd"] = "Connecting"

----------------------------------------------------------------------------
\* s is the beginning of t.
IsPrefix(s, t) == Len(s) <= Len(t) /\ SubSeq(t, 1, Len(s)) = s

\* C20: at most one thread is in the loop of notify_callbacks at any time,
\* and it holds the mutex, so no callback is called while another call of a
\* callback is going on; what each callback has been called with is the
\* beginning of the statuses published, in the order in which the arms
\* published them.
C20_CallbacksUnderMutex ==
    /\ Cardinality({t \in Threads : threads[t].pc = "notify"}) <= 1
    /\ \A t \in Threads : threads[t].pc = "notify" => lock = t
    /\ \A j \in 1..Len(callbacks) : IsPrefix(notifications[j], published)

\* Two overlapping calls each published a status: both callbacks were called
\* with the two statuses in the order in which they were published.
C20_Witness ==
    /\ Len(callbacks) = 2
    /\ Len(published) = 2
    /\ published[1] # published[2]
    /\ notifications = <<published, published>>
    /\ threads["t2"].overlaps
    /\ \A t \in Threads : threads[t].pc = "idle" /\ threads[t].result.ok

----------------------------------------------------------------------------
\* C21: a next_state call that has the mutex returns, the callbacks it calls
\* returning: a thread past lock() gets to its return.  The drain does not
\* wait: it can be taken whether or not a disconnect event is in the channel,
\* it removes the entries of the identifiers in the channel and no other, and
\* it leaves the channel empty.
C21_CallsReturn ==
    /\ \A t \in Threads : InCall(t) ~> threads[t].pc = "idle"
    /\ [](\A t \in Threads : threads[t].pc = "drain" => ENABLED DrainAndRead(t))
    /\ [][\A t \in Threads :
            (threads[t].pc = "drain" /\ threads'[t].pc # "drain") =>
               /\ disconnect_receiver' = <<>>
               /\ DOMAIN states' = DOMAIN states \ Range(disconnect_receiver)
               /\ \A k \in DOMAIN states' : states'[k] = states[k]
         ]_vars

\* abcd was Internal, its connection was lost, and the next call for it has
\* returned: the drain removed the entry and Connecting inserted a new one.
C21_Witness ==
    /\ threads["t1"].pc = "idle"
    /\ threads["t1"].peer = "abcd"
    /\ threads["t1"].result = Ok("Connecting")
    /\ published = <<<<"abcd", "Authorized">>>>
    /\ Len(callbacks) = 2
    /\ GetOrUnknown(states, "abcd") = "Connecting"
    /\ disconnect_receiver = <<>>

----------------------------------------------------------------------------
\* The positions of the store whose circuit the filter of the request keeps.
Kept ==
    {i \in DOMAIN store :
        ~request.filter.some \/ request.filter.value \in Range(store[i].members)}

\* The numbers written by the values of a query string.
Decimal ==
    (<<"0">> :> 0) @@ (<<"1">> :> 1) @@ (<<"2">> :> 2) @@ (<<"1", "0">> :> 10) @@
    (<<"+", "1">> :> 1)

\* A parameter of the query is a number, or is absent.
Numeric(parameter) == parameter.some => parameter.value \in DOMAIN Decimal

\* The number a parameter of the query gives, `default` when it is absent.
Number(parameter, default) ==
    IF parameter.some THEN Decimal[parameter.value] ELSE default

\* C22: GET /admin/circuits answers 400 exactly when offset or limit is no
\* number, and otherwise, unless the store fails, returns the circuits of
\* the store (those having the filter value as member when a filter is
\* given) in the order of the store, without the first `offset` of them and
\* at most `limit` of them, offset being 0 and limit 100 when absent; the
\* total it reports is the number of circuits before offset and limit apply.
C22_ListsCircuits ==
    request.sent =>
       /\ response.status = 400 <=> ~(Numeric(request.offset) /\ Numeric(request.limit))
       /\ response.status # 400 => response.status \in {200, 500}
       /\ response.status = 200 =>
            LET offset == Number(request.offset, 0)
                limit == Number(request.limit, 100)
                total == Cardinality(Kept)
                rest == IF offset >= total THEN 0 ELSE total - offset
                len == IF limit <= rest THEN limit ELSE rest
                rank == [j \in Kept |-> Cardinality({m \in Kept : m < j}) + 1]
            IN /\ response.paging.total = total
               /\ Len(response.data) = len
               /\ \A j \in Kept :
                     (rank[j] > offset /\ rank[j] <= offset + len) =>
                        /\ response.data[rank[j] - offset].id = store[j].id
                        /\ response.data[rank[j] - offset].members = store[j].members
                        /\ response.data[rank[j] - offset].circuit_management_type =
                              store[j].circuit_management_type

\* A store of more circuits than the default limit is listed without a limit:
\* the first 100 circuits are returned and the total counts them all.
C22_Witness ==
    /\ request.sent
    /\ ~request.limit.some /\ ~request.filter.some
    /\ request.offset.some /\ request.offset.value = <<"1">>
    /\ response.status = 200
    /\ Len(store) > 100
    /\ Len(response.data) = 100
    /\ response.data[1].id = 2
    /\ response.paging.total = Len(store)

----------------------------------------------------------------------------
\* The arms of next_state that call the Network's update_peer_id or
\* remove_connection: the state read and the action.
CallsNetwork(cur_state, action) ==
    \/ cur_state = "Unknown" /\ action.kind = "Unauthorizing"
    \/ cur_state = "Connecting" /\ action.kind \in {"TrustIdentifying", "Unauthorizing"}
    \/ cur_state = "Authorized" /\ action.kind = "Unauthorizing"

\* The peers once the Network has done what the arm asks of it.
NetworkDone(p, action) ==
    IF action.kind = "Unauthorizing" THEN MapRemove(peers, p)
    ELSE IF p \in DOMAIN peers THEN MapInsert(MapRemove(peers, p), action.id, peers[p])
    ELSE peers

\* C23: a next_state call whose update_peer_id or remove_connection fails
\* returns Err(ConnectionLost): an arm that calls the Network returns Ok or
\* Err(ConnectionLost), and Ok only with the Network's change done.  A call
\* returns Err(ConnectionLost) from these arms only, and then the entry of p
\* (read as Connecting or Authorized) is gone from the table, the rest of
\* the drained table is as it was, no entry was inserted for the new
\* identifier, and no callback was called.
C23_ConnectionLost ==
    [][last'.op = "next_state" =>
         LET p == last'.peer
             lost == last'.result = Err("ConnectionLost", "-")
         IN /\ CallsNetwork(last'.cur, last'.action) =>
                  /\ lost \/ last'.result \in {Ok("Authorized"), Ok("Unauthorized")}
                  /\ peers' # NetworkDone(p, last'.action) => lost
                  /\ (last'.action.kind = "TrustIdentifying" /\ p \notin DOMAIN peers) => lost
            /\ lost =>
                  /\ CallsNetwork(last'.cur, last'.action)
                  /\ p \notin DOMAIN states'
                  /\ states' = MapRemove(Drained, p)
                  /\ last'.action.kind = "TrustIdentifying" =>
                        (last'.action.id \in DOMAIN states' =>
                            /\ last'.action.id \in DOMAIN Drained
                            /\ last'.action.id # p)
                  /\ notifications' = notifications
      ]_vars

\* update_peer_id failed for a Connecting peer: its entry is gone, the new
\* identifier has none, and the callback was not called.
C23_Witness ==
    /\ Returned("TrustIdentifying", Err("ConnectionLost", "-"))
    /\ last.cur = "Connecting"
    /\ last.peer = "temp-1"
    /\ last.action.id = "abcd"
    /\ states = EmptyMap
    /\ "temp-1" \in DOMAIN peers
    /\ Len(callbacks) = 1
    /\ notifications[1] = <<>>

----------------------------------------------------------------------------
\* The step is a next_state(p, action) that begins with a disconnect of p in
\* the channel and p in the table as Connecting or Authorized.
DisconnectedMidHandshake ==
    /\ last'.op = "next_state"
    /\ last'.peer \in Range(disconnect_receiver)
    /\ last'.peer \in DOMAIN states
    /\ states[last'.peer] \in {"Connecting", "Authorized"}

\* C24: when a disconnect of p is in the channel while p is Connecting or
\* Authorized, the next_state(p, action) called next removes p's entry before
\* it reads the state, and evaluates the action against Unknown.
\* TrustIdentifying(q) returns Err(InvalidMessageOrder(Unknown, action)),
\* inserts no entry and calls no callback; Connecting is accepted as the
\* start of a handshake (Ok(Connecting) and p Connecting, or Ok(Internal) and
\* p Internal when p is in the Network on an inproc endpoint); Unauthorizing
\* returns, Ok(Unauthorized) or Err(ConnectionLost), and calls no callback.
C24_DisconnectedReadsUnknown ==
    [][DisconnectedMidHandshake =>
         LET p == last'.peer
             action == last'.action
             inproc == p \in DOMAIN peers /\ peers[p] \in InprocEndpoints
         IN /\ p \in last'.removals
            /\ last'.before \in {"Connecting", "Authorized"}
            /\ last'.cur = "Unknown"
            /\ action.kind = "TrustIdentifying" =>
                  /\ last'.result = InvalidMessageOrder("Unknown", action)
                  /\ states' = Drained
                  /\ \A k \in DOMAIN states' : states'[k] = "Authorized" => states[k] = "Authorized"
                  /\ peers' = peers
                  /\ notifications' = notifications
            /\ action.kind = "Connecting" =>
                  /\ last'.result = IF inproc THEN Ok("Internal") ELSE Ok("Connecting")
                  /\ states' = MapInsert(Drained, p, IF inproc THEN "Internal" ELSE "Connecting")
                  /\ ~inproc => notifications' = notifications
            /\ action.kind = "Unauthorizing" =>
                  /\ last'.result \in {Ok("Unauthorized"), Err("ConnectionLost", "-")}
                  /\ states' = Drained
                  /\ notifications' = notifications
      ]_vars

\* temp-1 was Connecting and disconnected; its TrustIdentifying(abcd) was
\* refused from Unknown, and nobody is authorized.
C24_Witness ==
    /\ Returned("TrustIdentifying",
                InvalidMessageOrder("Unknown", [kind |-> "TrustIdentifying", id |-> "abcd"]))
    /\ last.peer = "temp-1"
    /\ last.before = "Connecting"
    /\ last.cur = "Unknown"
    /\ "temp-1" \in last.removals
    /\ states = EmptyMap
    /\ Len(callbacks) = 1
    /\ notifications[1] = <<>>

----------------------------------------------------------------------------
\* C25: while a call is in the loop of notify_callbacks it holds the mutex
\* and the table and the Network are already changed, and stay as they are
\* until the loop ends.  With (q, Authorized) the table holds q as Authorized
\* or Internal and the Connecting entry of the peer is gone (no entry under
\* its identifier when that is another one than q); with (p, Unauthorized) p
\* has no entry in the table and is not in the Network.
C25_CallbackAfterMutation ==
    /\ [](\A t \in Threads : threads[t].pc = "notify" =>
             LET q == threads[t].pending[1][1]
                 status == threads[t].pending[1][2]
                 p == threads[t].peer
             IN /\ lock = t
                /\ status \in PeerAuthorizationState
                /\ status = "Authorized" =>
                      /\ q \in DOMAIN states
                      /\ states[q] \in {"Authorized", "Internal"}
                      /\ states[q] = "Internal" <=> threads[t].action.kind = "Connecting"
                      /\ p # q => p \notin DOMAIN states
                      /\ GetOrUnknown(states, p) # "Connecting"
                /\ status = "Unauthorized" =>
                      /\ q = p
                      /\ p \notin DOMAIN states
                      /\ p \notin DOMAIN peers)
    /\ [][(\E t \in Threads : threads[t].pc = "notify") =>
            states' = states /\ peers' = peers]_vars

\* The second callback is about to hear (abcd, Authorized), the first has:
\* abcd is Authorized in the table and temp-1 has no entry.
C25_Witness ==
    /\ threads["t1"].pc = "notify"
    /\ threads["t1"].i = 2
    /\ threads["t1"].peer = "temp-1"
    /\ threads["t1"].pending = <<<<"abcd", "Authorized">>>>
    /\ notifications = << <<<<"abcd", "Authorized">>>>, <<>> >>
    /\ states = MapInsert(EmptyMap, "abcd", "Authorized")
    /\ "abcd" \in DOMAIN peers

----------------------------------------------------------------------------
\* A callback that calls the manager has been called.
Invoked ==
    \E i \in 1..Len(callbacks) : callbacks[i] \in Reentrant /\ notifications[i] # <<>>

----------------------------------------------------------------------------
\* The peer a next_state call that returned Ok(Authorized) or Ok(Internal)
\* has published as Authorized.
PublishedPeer(t) ==
    IF threads[t].action.kind = "TrustIdentifying" THEN threads[t].action.id
    ELSE threads[t].peer

\* Thread t is calling the callbacks with (q, Authorized), or has returned
\* from the call in which it did: `received` is the number of callbacks that
\* have been called.
Received(t) ==
    /\ threads[t].pc \in {"notify", "return", "idle"}
    /\ threads[t].result \in {Ok("Authorized"), Ok("Internal")}
    /\ Len(callbacks) > 0

----------------------------------------------------------------------------
\* The step is a next_state(p, TrustIdentifying(q)) that reads p as
\* Connecting while q, another identifier, is in the table as Authorized.
IdentifierCollision ==
    /\ last'.op = "next_state"
    /\ last'.action.kind = "TrustIdentifying"
    /\ last'.cur = "Connecting"
    /\ last'.action.id # last'.peer
    /\ last'.action.id \in DOMAIN Drained
    /\ Drained[last'.action.id] = "Authorized"

\* C28: TrustIdentifying(q) of a Connecting p, q being Authorized already for
\* another peer, is not refused for that: it returns Ok(Authorized), or
\* Err(ConnectionLost) when the Network does not rename.  With Ok(Authorized)
\* the table is the drained table without p and with q Authorized (one entry
\* for q, no key added), every callback is called with (q, Authorized), and a
\* callback that has heard of q before heard Authorized last: it hears
\* Authorized again with no Unauthorized in between.
C28_AuthorizedTwice ==
    [][IdentifierCollision =>
         LET p == last'.peer
             q == last'.action.id
         IN /\ last'.result \in {Ok("Authorized"), Err("ConnectionLost", "-")}
            /\ p \in DOMAIN peers /\ peers' # peers => last'.result = Ok("Authorized")
            /\ last'.result = Ok("Authorized") =>
                  /\ states' = MapInsert(MapRemove(Drained, p), q, "Authorized")
                  /\ DOMAIN states' = DOMAIN Drained \ {p}
                  /\ \A i \in 1..Len(callbacks) :
                        LET before == StatusesFor(notifications[i], q) IN
                        /\ notifications'[i] = Append(notifications[i], <<q, "Authorized">>)
                        /\ before # <<>> => before[Len(before)] = "Authorized"
      ]_vars

\* abcd was Authorized when temp-1, Connecting, identified as abcd too: the
\* call returned Ok(Authorized), the table holds abcd alone, and the callback
\* has heard (abcd, Authorized) twice.
C28_Witness ==
    /\ Returned("TrustIdentifying", Ok("Authorized"))
    /\ last.peer = "temp-1"
    /\ last.action.id = "abcd"
    /\ last.cur = "Connecting"
    /\ last.removals = {}
    /\ states = MapInsert(EmptyMap, "abcd", "Authorized")
    /\ Len(callbacks) = 1
    /\ notifications[1] = << <<"abcd", "Authorized">>, <<"abcd", "Authorized">> >>

----------------------------------------------------------------------------
\* What the arm of the next_state call that returns in this step hands to
\* notify_callbacks: nothing, or one status.
ArmStatus ==
    IF last'.result = Ok("Internal") THEN <<<<last'.peer, "Authorized">>>>
    ELSE IF last'.result = Ok("Authorized") THEN <<<<last'.action.id, "Authorized">>>>
    ELSE IF last'.result = Ok("Unauthorized") /\ last'.cur # "Unknown"
    THEN <<<<last'.peer, "Unauthorized">>>>
    ELSE <<>>

\* The peers whose entry the drain of the call that begins now removes,
\* having been Authorized or Internal.
Disconnected ==
    {p \in Range(disconnect_receiver) :
        p \in DOMAIN states /\ states[p] \in {"Authorized", "Internal"}}

\* C29: the drain publishes nothing.  A next_state call calls each callback
\* with the one status of its arm, if the arm has one, and with nothing
\* else, and is_authorized calls no callback, whatever entries their drains
\* remove.  For a peer that was Authorized or Internal and whose disconnect
\* is drained, no callback is called with Unauthorized; its entry is gone
\* after is_authorized, and after next_state unless the arm has stored the
\* peer anew.
C29_DrainPublishesNothing ==
    [][last'.op \in {"next_state", "is_authorized"} =>
         /\ \A i \in 1..Len(callbacks) :
               notifications'[i] =
                  notifications[i] \o (IF last'.op = "next_state" THEN ArmStatus ELSE <<>>)
         /\ \A p \in Disconnected :
               /\ p \in last'.removals
               /\ \A i \in 1..Len(callbacks) :
                     \A j \in (Len(notifications[i]) + 1)..Len(notifications'[i]) :
                        notifications'[i][j] # <<p, "Unauthorized">>
               /\ last'.op = "is_authorized" => p \notin DOMAIN states'
               /\ p \in DOMAIN states' =>
                     \/ last'.peer = p /\ last'.result \in {Ok("Connecting"), Ok("Internal")}
                     \/ last'.action.id = p /\ last'.result = Ok("Authorized")
      ]_vars

\* abcd was Authorized and was lost; is_authorized(abcd) removed its entry
\* and returned false, and the callback has heard (abcd, Authorized) and
\* nothing after it.
C29_Witness ==
    /\ last.op = "is_authorized"
    /\ last.peer = "abcd"
    /\ last.before = "Authorized"
    /\ "abcd" \in last.removals
    /\ ~last.answer
    /\ states = EmptyMap
    /\ Len(callbacks) = 1
    /\ notifications[1] = <<<<"abcd", "Authorized">>>>

----------------------------------------------------------------------------
\* The table holds p as Authorized or Internal.
HoldsAuthorized(table, p) ==
    p \in DOMAIN table /\ table[p] \in {"Authorized", "Internal"}

\* C30: whenever the table holds p as Authorized or Internal, the last status
\* for p that a callback has been called with, if it has been called with
\* one, is Authorized.  An entry becomes Authorized or Internal only in a
\* next_state call that calls every callback registered at that time with
\* (p, Authorized), and a call that publishes (p, Unauthorized) leaves no
\* entry for p: none is published while the entry of p stays.
C30_AuthorizedIsPublished ==
    /\ [](\A p \in Identities : HoldsAuthorized(states, p) =>
             \A i \in 1..Len(callbacks) :
                LET heard == StatusesFor(notifications[i], p) IN
                heard # <<>> => heard[Len(heard)] = "Authorized")
    /\ [][\A p \in Identities :
            (/\ HoldsAuthorized(states', p)
             /\ \/ ~HoldsAuthorized(states, p)
                \/ last'.op = "next_state" /\ ~HoldsAuthorized(Drained, p)) =>
               /\ last'.op = "next_state"
               /\ callbacks' = callbacks
               /\ \A i \in 1..Len(callbacks) :
                     notifications'[i] = Append(notifications[i], <<p, "Authorized">>)
        ]_vars
    /\ [][\A p \in Identities : \A i \in 1..Len(callbacks) :
            (/\ notifications'[i] # notifications[i]
             /\ notifications'[i][Len(notifications'[i])] = <<p, "Unauthorized">>) =>
               /\ p \notin DOMAIN states'
               /\ p \in DOMAIN Drained
        ]_vars

\* temp-1, an inproc peer, was stored as Internal by its Connecting, and the
\* callback registered before has heard (temp-1, Authorized).
C30_Witness ==
    /\ Returned("Connecting", Ok("Internal"))
    /\ last.peer = "temp-1"
    /\ HoldsAuthorized(states, "temp-1")
    /\ states["temp-1"] = "Internal"
    /\ Len(callbacks) = 1
    /\ StatusesFor(notifications[1], "temp-1") = <<"Authorized">>

----------------------------------------------------------------------------
\* C31: the drain goes by the identifier alone.  Whatever the Network holds,
\* is_authorized(q) returns false while q is in the channel, and the step
\* that empties the channel removes the entry of every identifier in it and
\* does not touch the Network: a disconnect of q sent for an earlier
\* connection removes the entry of the peer authorized as q since, and
\* is_authorized(q) is false while the Network holds q.
C31_EvictedByIdentifier ==
    /\ [](\A q \in Range(disconnect_receiver) : ~Answer(q))
    /\ [][(disconnect_receiver # <<>> /\ disconnect_receiver' = <<>>) =>
            /\ \A q \in Range(disconnect_receiver) : q \notin DOMAIN states'
            /\ \A k \in DOMAIN states \ Range(disconnect_receiver) :
                  k \in DOMAIN states' /\ states'[k] = states[k]
            /\ peers' = peers
        ]_vars

\* The old connection abcd was lost while temp-1 was being identified as
\* abcd; its disconnect was drained after the call: the call returned
\* Ok(Authorized) and the callback heard it, the Network holds abcd, and the
\* table has no entry for it, so that is_authorized(abcd) is false.
C31_Witness ==
    /\ threads["t1"].pc = "idle"
    /\ threads["t1"].result = Ok("Authorized")
    /\ threads["t1"].peer = "temp-1"
    /\ threads["t1"].action.id = "abcd"
    /\ notifications = << <<<<"abcd", "Authorized">>>> >>
    /\ "abcd" \in DOMAIN peers
    /\ "abcd" \notin DOMAIN states
    /\ disconnect_receiver = <<>>
    /\ ~Answer("abcd")

----------------------------------------------------------------------------
\* C32: is_authorized changes the table by removing the entries of the
\* identifiers it receives from the channel, and changes nothing else: no
\* entry is inserted, every entry that stays keeps its state, the Network's
\* peers are as they were, no callback is called, and the list of the
\* callbacks is as it was.
C32_IsAuthorizedFrame ==
    [][last'.op = "is_authorized" =>
         /\ last'.removals = Range(disconnect_receiver)
         /\ DOMAIN states' = DOMAIN states \ Range(disconnect_receiver)
         /\ \A k \in DOMAIN states' : states'[k] = states[k]
         /\ disconnect_receiver' = <<>>
         /\ peers' = peers
         /\ notifications' = notifications
         /\ callbacks' = callbacks
      ]_vars

\* is_authorized(abcd) received the disconnect of temp-1: temp-1 has no
\* entry, abcd is Authorized as before and the answer is true, and the
\* callback has heard nothing new.
C32_Witness ==
    /\ last.op = "is_authorized"
    /\ last.peer = "abcd"
    /\ last.removals = {"temp-1"}
    /\ last.answer
    /\ states = MapInsert(EmptyMap, "abcd", "Authorized")
    /\ "abcd" \in DOMAIN peers
    /\ Len(callbacks) = 1
    /\ notifications[1] = <<<<"abcd", "Authorized">>>>

----------------------------------------------------------------------------
(* C33: register_callback only appends to the callback list. A step of     *)
(* register_callback leaves the disconnect channel undrained, the table of *)
(* states and the peers of the network as they were, keeps every earlier   *)
(* callback at its place with the notifications it has received, and puts  *)
(* the new callback last with no notification received: it hears nothing   *)
(* of the transitions completed before its registration. No step of any    *)
(* operation removes or moves a registered callback.                       *)
C33_RegisterOnlyAppends ==
    [][/\ Len(callbacks') >= Len(callbacks)
       /\ \A i \in 1..Len(callbacks) : callbacks'[i] = callbacks[i]
       /\ last'.op = "register_callback" =>
            /\ Len(callbacks') = Len(callbacks) + 1
            /\ Len(notifications') = Len(callbacks')
            /\ \A i \in 1..Len(callbacks) : notifications'[i] = notifications[i]
            /\ notifications'[Len(callbacks')] = <<>>
            /\ disconnect_receiver' = disconnect_receiver
            /\ states' = states
            /\ peers' = peers
      ]_vars

\* A second callback has just been registered, after temp-1 was authorized
\* as abcd and while the disconnect of abcd waits on the channel: the first
\* callback has heard of the authorization, the second has heard nothing,
\* and the disconnect is still waiting.
C33_Witness ==
    /\ last.op = "register_callback"
    /\ Len(callbacks) = 2
    /\ notifications = << <<<<"abcd", "Authorized">>>>, <<>> >>
    /\ states = MapInsert(EmptyMap, "abcd", "Authorized")
    /\ disconnect_receiver = <<"abcd">>
====
